---------------------------- MODULE Spec2Model ----------------------------
(***************************************************************************)
(* A model of the line parser of mini-tmpfiles (src/src/parser.rs and      *)
(* src/src/config_file.rs).                                                *)
(*                                                                         *)
(* Bytes are the integers 0..255, byte strings are sequences of bytes.     *)
(* Option<T> is a sequence of length at most one (None == <<>>,            *)
(* Some(x) == <<x>>), Result<T, E> is a record with an `ok` flag, and an   *)
(* error value is a tuple whose head is the name of the Rust variant.      *)
(* Offsets (cursor, char_range) are 0-based as in the source.              *)
(***************************************************************************)
EXTENDS Integers, Sequences, FiniteSets, TLC

VARIABLES
    source,     \* the byte slice handed to FileSpan::from_slice
    input,      \* the FileSpan being consumed (input of parse_line and take_field)
    cursor,     \* SpanCursor.cursor of the cursor take_field holds
    quotation,  \* take_field: the opening quote, if any
    field,      \* take_field: the bytes decoded so far
    token,      \* the value take_field returned last
    column,     \* parse_line: the field being read
    pc,         \* the statement to run next
    line,       \* parse_line: the fields decoded so far
    result,     \* the value parse_line returned (None while it runs)
    files,      \* parsed_config: the contents of the files still to read
    lines,      \* the FileSpan a Lines iterator holds (None without one)
    yielded,    \* the spans Lines::next has returned, in order
    config      \* parsed_config: the Vec of the lines parsed so far

\* What parse_line and take_field leave alone: the state of their caller.
outer == <<files, lines, yielded, config>>

vars == <<source, input, cursor, quotation, field, token, column, pc, line, result, outer>>

---------------------------------------------------------------------------
(* Bytes *)

\* The printable ASCII characters in code order; Printable[i] has code 31 + i
\* (the grave accent, code 96, is spelled out).
Printable ==
    <<" ", "!", "\"", "#", "$", "%", "&", "'", "(", ")", "*", "+", ",", "-", ".", "/",
      "0", "1", "2", "3", "4", "5", "6", "7", "8", "9", ":", ";", "<", "=", ">", "?",
      "@", "A", "B", "C", "D", "E", "F", "G", "H", "I", "J", "K", "L", "M", "N", "O",
      "P", "Q", "R", "S", "T", "U", "V", "W", "X", "Y", "Z", "[", "\\", "]", "^", "_",
      "BACKTICK", "a", "b", "c", "d", "e", "f", "g", "h", "i", "j", "k", "l", "m", "n", "o",
      "p", "q", "r", "s", "t", "u", "v", "w", "x", "y", "z", "{", "|", "}", "~">>

\* The byte of a one-character literal: B["a"] = 97.
B == [c \in {Printable[i] : i \in 1..Len(Printable)} |->
        31 + CHOOSE i \in 1..Len(Printable) : Printable[i] = c]

\* The byte string of a literal written one character per element.
Str(cs) == [i \in 1..Len(cs) |-> B[cs[i]]]

NUL == 0
TAB == 9
LF == 10
CR == 13

None == <<>>
Some(x) == <<x>>
Ok(v) == [ok |-> TRUE, val |-> v]
Err(e) == [ok |-> FALSE, err |-> e]

IsInlineWhitespace(b) == b = B[" "] \/ b = TAB
IsQuote(b) == b = B["'"] \/ b = B["\""]
IsAsciiDigit(b) == B["0"] <= b /\ b <= B["9"]
IsAsciiAlphabetic(b) == (B["a"] <= b /\ b <= B["z"]) \/ (B["A"] <= b /\ b <= B["Z"])
IsAscii(b) == b < 128

SubSeqFrom(s, n) == SubSeq(s, n + 1, Len(s))      \* &s[n..]
Prefix(s, n) == SubSeq(s, 1, n)                   \* &s[..n]

---------------------------------------------------------------------------
(* std: str::from_utf8 and the integer parsers *)

IsCont(b) == 128 <= b /\ b <= 191

\* The length of the well-formed UTF-8 sequence that starts s at offset i
\* (0-based), or 0 when there is none.
Utf8SeqLen(s, i) ==
    LET n == Len(s) - i
        b0 == s[i + 1]
        b1 == s[i + 2]
        b2 == s[i + 3]
        b3 == s[i + 4]
    IN  IF b0 < 128 THEN 1
        ELSE IF 194 <= b0 /\ b0 <= 223
             THEN IF n >= 2 /\ IsCont(b1) THEN 2 ELSE 0
        ELSE IF 224 <= b0 /\ b0 <= 239
             THEN IF n >= 3 /\ IsCont(b2)
                     /\ (CASE b0 = 224 -> 160 <= b1 /\ b1 <= 191
                           [] b0 = 237 -> 128 <= b1 /\ b1 <= 159
                           [] OTHER -> IsCont(b1))
                  THEN 3 ELSE 0
        ELSE IF 240 <= b0 /\ b0 <= 244
             THEN IF n >= 4 /\ IsCont(b2) /\ IsCont(b3)
                     /\ (CASE b0 = 240 -> 144 <= b1 /\ b1 <= 191
                           [] b0 = 244 -> 128 <= b1 /\ b1 <= 143
                           [] OTHER -> IsCont(b1))
                  THEN 4 ELSE 0
        ELSE 0

RECURSIVE IsUtf8From(_, _)
IsUtf8From(s, i) ==
    IF i >= Len(s) THEN TRUE
    ELSE LET k == Utf8SeqLen(s, i)
         IN  k > 0 /\ IsUtf8From(s, i + k)

\* std::str::from_utf8(s).is_ok()
IsUtf8(s) == IsUtf8From(s, 0)

\* char::to_digit(radix): the value of a digit byte, or -1.
ToDigit(b, radix) ==
    LET v == IF IsAsciiDigit(b) THEN b - B["0"]
             ELSE IF B["a"] <= b /\ b <= B["z"] THEN b - B["a"] + 10
             ELSE IF B["A"] <= b /\ b <= B["Z"] THEN b - B["A"] + 10
             ELSE -1
    IN  IF v >= 0 /\ v < radix THEN v ELSE -1

RECURSIVE DigitsValue(_, _, _, _, _)
\* The digit loop of from_str_radix for an unsigned type whose maximum is max:
\* acc * radix + digit with the overflow check at each step.
DigitsValue(digits, i, radix, max, acc) ==
    IF i > Len(digits) THEN Ok(acc)
    ELSE LET d == ToDigit(digits[i], radix)
         IN  IF d < 0 THEN Err("InvalidDigit")
             ELSE IF acc > (max - d) \div radix THEN Err("PosOverflow")
             ELSE DigitsValue(digits, i + 1, radix, max, acc * radix + d)

\* uN::from_str_radix(s, radix) for an unsigned type with maximum max that
\* fits the checker's integers: an optional leading `+` is accepted, a lone
\* sign and a `-` are InvalidDigit.
FromStrRadix(s, radix, max) ==
    IF Len(s) = 0 THEN Err("Empty")
    ELSE IF Len(s) = 1 /\ (s[1] = B["+"] \/ s[1] = B["-"]) THEN Err("InvalidDigit")
    ELSE IF s[1] = B["+"] THEN DigitsValue(Tail(s), 1, radix, max, 0)
    ELSE DigitsValue(s, 1, radix, max, 0)

U8Max == 255

---------------------------------------------------------------------------
(* FileSpan and SpanCursor *)

\* A FileSpan: its bytes and its char_range start..end (the file is fixed).
FromSlice(bytes) == [bytes |-> bytes, start |-> 0, end |-> Len(bytes)]

\* A Spanned<T>: the data and the characters range.
Spanned(data, from, to) == [data |-> data, characters |-> <<from, to>>]

\* SpanCursor::peek
Peek(span, c) == IF c < Len(span.bytes) THEN Some(span.bytes[c + 1]) ELSE None

\* Whether slicing span.bytes at c is in range (it panics otherwise).
InRange(span, c) == c <= Len(span.bytes)

\* SpanCursor::as_bytes
AsBytes(span, c) == SubSeqFrom(span.bytes, c)

\* split_off_beginning leaving the start of the char_range of the original
\* span where it was.
SplitOffBeginningKeepingStart(span, c) ==
    [split |-> [bytes |-> Prefix(span.bytes, c),
                start |-> span.start, end |-> span.start + c],
     rest  |-> [bytes |-> SubSeqFrom(span.bytes, c),
                start |-> span.start, end |-> span.end]]

\* SpanCursor::split_off_beginning: the span split off and what is left.
SplitOffBeginning(span, c) ==
    [split |-> [bytes |-> Prefix(span.bytes, c),
                start |-> span.start, end |-> span.start + c],
     rest  |-> [bytes |-> SubSeqFrom(span.bytes, c),
                start |-> span.start + c, end |-> span.end]]

RECURSIVE WhitespaceEnd(_, _)
\* take_inline_whitespace: the cursor after its loop.
WhitespaceEnd(span, c) ==
    IF Peek(span, c) # None /\ IsInlineWhitespace(Peek(span, c)[1])
    THEN WhitespaceEnd(span, c + 1)
    ELSE c

\* take_inline_whitespace: the span it leaves.
TakeInlineWhitespace(span) == SplitOffBeginning(span, WhitespaceEnd(span, 0)).rest

\* parse_line on its own: no Lines iterator, no parsed_config.
NoCaller == files = <<>> /\ lines = None /\ yielded = <<>> /\ config = <<>>

---------------------------------------------------------------------------
(* take_field *)

Continue(c, f) == [kind |-> "continue", cursor |-> c, field |-> f]
Break(c, f) == [kind |-> "break", cursor |-> c, field |-> f]
Fail(e) == [kind |-> "err", err |-> e]
\* A panic (a failed assertion, a slice out of range) is kept apart from the
\* errors the code returns by its head.
Panic(what) == [kind |-> "err", err |-> <<"panic", what>>]

\* The arm for \x taking its two bytes without looking whether they are there.
HexEscapeUnchecked(span, c, f) ==
    IF Len(AsBytes(span, c)) < 2 THEN Continue(c + 2, f)
    ELSE LET digits == Prefix(AsBytes(span, c), 2)
             byte == FromStrRadix(digits, 16, U8Max)
         IN  IF ~IsUtf8(digits) THEN Fail(<<"InvalidHexEscape">>)
             ELSE IF byte.ok THEN Continue(c + 2, Append(f, byte.val))
             ELSE Fail(<<"InvalidHexEscape">>)

\* The arm for \x: c is the cursor after the x.
HexEscape(span, c, f) ==
    IF ~InRange(span, c) THEN Panic("as_bytes")
    ELSE IF Len(AsBytes(span, c)) < 2 THEN Fail(<<"UnfinishedHexEscape">>)
    ELSE LET digits == Prefix(AsBytes(span, c), 2)
             byte == FromStrRadix(digits, 16, U8Max)
         IN  IF ~IsUtf8(digits) THEN Fail(<<"InvalidHexEscape">>)
             ELSE IF byte.ok THEN Continue(c + 2, Append(f, byte.val))
             ELSE IF byte.err # "InvalidDigit" THEN Panic("assert_eq")
             ELSE Fail(<<"InvalidHexEscape">>)

\* Escape without its arm for the octal digits.
EscapeWithoutOctal(character, span, c, f) ==
    IF character = B["x"] THEN HexEscape(span, c, f)
    ELSE IF character = B["n"] THEN Continue(c, Append(f, LF))
    ELSE IF character = B["r"] THEN Continue(c, Append(f, CR))
    ELSE IF character = B["t"] THEN Continue(c, Append(f, TAB))
    ELSE IF IsQuote(character) \/ character = B["\\"]
         THEN Continue(c, Append(f, character))
    ELSE Fail(<<"UnrecognizedEscape", character>>)

\* The match on the byte after a backslash: c is the cursor after that byte.
Escape(character, span, c, f) ==
    IF character = B["x"] THEN HexEscape(span, c, f)
    ELSE IF B["0"] <= character /\ character <= B["7"]
         THEN Fail(<<"UnsupportedOctalEscape">>)
    ELSE IF character = B["n"] THEN Continue(c, Append(f, LF))
    ELSE IF character = B["r"] THEN Continue(c, Append(f, CR))
    ELSE IF character = B["t"] THEN Continue(c, Append(f, TAB))
    ELSE IF IsQuote(character) \/ character = B["\\"]
         THEN Continue(c, Append(f, character))
    ELSE Fail(<<"UnrecognizedEscape", character>>)

\* FieldStep in which either quote closes a quoted field.
FieldStepAnyQuote(span, c, q, f) ==
    LET ch == Peek(span, c)
    IN  IF ch # None /\ IsQuote(ch[1]) /\ q # None
        THEN LET next == Peek(span, c + 1)
             IN  IF next # None /\ ~IsInlineWhitespace(next[1])
                 THEN Fail(<<"JunkAfterQuotes">>)
                 ELSE Break(c + 1, f)
        ELSE IF (ch = None \/ IsInlineWhitespace(ch[1])) /\ q = None
        THEN Break(c, f)
        ELSE IF ch = None THEN Fail(<<"UnfinishedQuote">>)
        ELSE IF IsQuote(ch[1]) /\ q = None THEN Fail(<<"QuoteInUnquotedField">>)
        ELSE IF ch[1] = B["\\"]
        THEN IF Peek(span, c + 1) = None
             THEN Fail(<<"TrailingBackslash">>)
             ELSE Escape(Peek(span, c + 1)[1], span, c + 2, f)
        ELSE Continue(c + 1, Append(f, ch[1]))

\* One iteration of the loop of take_field.
FieldStep(span, c, q, f) ==
    LET ch == Peek(span, c)
    IN  IF ch # None /\ IsQuote(ch[1]) /\ ch = q
        THEN LET next == Peek(span, c + 1)
             IN  IF next # None /\ ~IsInlineWhitespace(next[1])
                 THEN Fail(<<"JunkAfterQuotes">>)
                 ELSE Break(c + 1, f)
        ELSE IF (ch = None \/ IsInlineWhitespace(ch[1])) /\ q = None
        THEN Break(c, f)
        ELSE IF ch = None THEN Fail(<<"UnfinishedQuote">>)
        ELSE IF IsQuote(ch[1]) /\ q = None THEN Fail(<<"QuoteInUnquotedField">>)
        ELSE IF ch[1] = B["\\"]
        THEN IF Peek(span, c + 1) = None
             THEN Fail(<<"TrailingBackslash">>)
             ELSE Escape(Peek(span, c + 1)[1], span, c + 2, f)
        ELSE Continue(c + 1, Append(f, ch[1]))

RECURSIVE TakeFieldFrom(_, _, _, _)
\* The loop of take_field run to its end, and what take_field returns then:
\* Ok of the Spanned field with the span left in rest, or the error.
TakeFieldFrom(span, c, q, f) ==
    LET step == FieldStep(span, c, q, f)
    IN  CASE step.kind = "continue" -> TakeFieldFrom(span, step.cursor, q, step.field)
          [] step.kind = "err" -> Err(step.err)
          [] step.kind = "break" ->
               IF ~InRange(span, step.cursor) THEN Err(<<"panic", "split_off_beginning">>)
               ELSE [ok |-> TRUE,
                     val |-> Spanned(Some(step.field), span.start, span.start + step.cursor),
                     rest |-> SplitOffBeginning(span, step.cursor).rest]

\* take_field as a function of the span it is given.
TakeField(span) ==
    IF Peek(span, 0) = None
    THEN [ok |-> TRUE, val |-> Spanned(None, span.start, span.end), rest |-> span]
    ELSE IF IsQuote(Peek(span, 0)[1]) THEN TakeFieldFrom(span, 1, Peek(span, 0), <<>>)
    ELSE TakeFieldFrom(span, 0, None, <<>>)

\* TakeFieldBegin without the early return: an empty span is an unquoted field.
TakeFieldBeginWithoutReturn ==
    /\ pc = "take_field"
    /\ LET first == Peek(input, 0)
       IN  /\ quotation' = IF first # None /\ IsQuote(first[1]) THEN first ELSE None
           /\ cursor' = IF first # None /\ IsQuote(first[1]) THEN 1 ELSE 0
           /\ field' = <<>>
           /\ pc' = "loop"
           /\ UNCHANGED token
    /\ UNCHANGED <<outer, source, input, column, line, result>>

\* take_field up to its loop: the opening quote, or the early return on an
\* empty span.
TakeFieldBegin ==
    /\ pc = "take_field"
    /\ LET first == Peek(input, 0)
       IN  IF first = None
           THEN /\ token' = Ok(Spanned(None, input.start, input.end))
                /\ pc' = "field_returned"
                /\ UNCHANGED <<cursor, quotation, field>>
           ELSE /\ quotation' = IF IsQuote(first[1]) THEN first ELSE None
                /\ cursor' = IF IsQuote(first[1]) THEN 1 ELSE 0
                /\ field' = <<>>
                /\ pc' = "loop"
                /\ UNCHANGED token
    /\ UNCHANGED <<outer, source, input, column, line, result>>

\* One iteration of the loop of take_field; on break, the split and the return.
TakeFieldLoop ==
    /\ pc = "loop"
    /\ LET step == FieldStep(input, cursor, quotation, field)
       IN  CASE step.kind = "continue" ->
                  /\ cursor' = step.cursor
                  /\ field' = step.field
                  /\ UNCHANGED <<input, token, pc>>
             [] step.kind = "break" ->
                  /\ cursor' = step.cursor
                  /\ field' = step.field
                  /\ pc' = "field_returned"
                  /\ IF InRange(input, step.cursor)
                     THEN LET cut == SplitOffBeginning(input, step.cursor)
                          IN  /\ token' = Ok(Spanned(Some(step.field),
                                                     cut.split.start, cut.split.end))
                              /\ input' = cut.rest
                     ELSE /\ token' = Err(<<"panic", "split_off_beginning">>)
                          /\ UNCHANGED input
             [] step.kind = "err" ->
                  /\ token' = Err(step.err)
                  /\ pc' = "field_returned"
                  /\ UNCHANGED <<input, cursor, field>>
    /\ UNCHANGED <<outer, source, quotation, column, line, result>>

---------------------------------------------------------------------------
(* parse_type *)

\* The match on the first byte: the LineAction of an action letter, or None.
Action(char) ==
    CASE char = B["f"] \/ char = B["F"] -> Some("CreateFile")
      [] char = B["w"] -> Some("WriteFile")
      [] char \in {B["d"], B["v"], B["q"], B["Q"]} -> Some("CreateAndCleanUpDirectory")
      [] char = B["D"] -> Some("CreateAndRemoveDirectory")
      [] char = B["e"] -> Some("CleanUpDirectory")
      [] char = B["p"] -> Some("CreateFifo")
      [] char = B["L"] -> Some("CreateSymlink")
      [] char = B["c"] -> Some("CreateCharDevice")
      [] char = B["b"] -> Some("CreateBlockDevice")
      [] char = B["C"] -> Some("Copy")
      [] char = B["x"] -> Some("Ignore")
      [] char = B["X"] -> Some("IgnoreNonRecursive")
      [] char = B["r"] -> Some("Remove")
      [] char = B["R"] -> Some("RemoveRecursive")
      [] char = B["z"] -> Some("SetMode")
      [] char = B["Z"] -> Some("SetModeRecursive")
      [] char = B["t"] -> Some("SetXattr")
      [] char = B["T"] -> Some("SetXattrRecursive")
      [] char = B["h"] -> Some("SetAttr")
      [] char = B["H"] -> Some("SetAttrRecursive")
      [] char = B["a"] -> Some("SetAcl")
      [] char = B["A"] -> Some("SetAclRecursive")
      [] OTHER -> None

\* The variable a modifier byte sets, or None.
ModifierVar(c) ==
    CASE c = B["+"] -> Some("plus")
      [] c = B["-"] -> Some("minus")
      [] c = B["!"] -> Some("exclamation")
      [] c = B["="] -> Some("equals")
      [] c = B["~"] -> Some("tilde")
      [] c = B["^"] -> Some("caret")
      [] OTHER -> None

RECURSIVE ModifiersUnchecked(_, _, _)
\* The loop over the modifiers without its test of the variable.
ModifiersUnchecked(modifiers, i, flags) ==
    IF i > Len(modifiers) THEN Ok(flags)
    ELSE LET c == modifiers[i]
             var == ModifierVar(c)
         IN  IF var = None THEN Err(<<"InvalidTypeModifier", c>>)
             ELSE ModifiersUnchecked(modifiers, i + 1, [flags EXCEPT ![var[1]] = TRUE])

RECURSIVE Modifiers(_, _, _)
\* The loop over the modifiers from index i on: the flags, or the error.
Modifiers(modifiers, i, flags) ==
    IF i > Len(modifiers) THEN Ok(flags)
    ELSE LET c == modifiers[i]
             var == ModifierVar(c)
         IN  IF var = None THEN Err(<<"InvalidTypeModifier", c>>)
             ELSE IF flags[var[1]] THEN Err(<<"DuplicateTypeModifier", c>>)
             ELSE Modifiers(modifiers, i + 1, [flags EXCEPT ![var[1]] = TRUE])

\* The letters that `+` may follow.
RecreateLetters ==
    {B["f"], B["w"], B["p"], B["L"], B["c"], B["b"], B["C"], B["a"], B["A"]}

\* MayRecreate with the directories among the letters.
MayRecreateDirectory(char) == char \in RecreateLetters \cup {B["d"], B["D"]}

\* Whether `+` is legal after the action letter char.
MayRecreate(char) == char \in RecreateLetters

\* TypeOf without its test of caret.
TypeOfWithoutCaret(action, char, flags) ==
    IF flags.plus /\ ~MayRecreate(char)
    THEN Err(<<"InvalidTypeCombination", char, B["+"]>>)
    ELSE Ok(<<[action |-> action, recreate |-> flags.plus,
               boot |-> flags.exclamation, noerror |-> flags.minus,
               force |-> flags.equals],
              flags.tilde>>)

\* What parse_type returns once the modifiers are read.
TypeOf(action, char, flags) ==
    IF flags.plus /\ ~MayRecreate(char)
    THEN Err(<<"InvalidTypeCombination", char, B["+"]>>)
    ELSE IF flags.caret THEN Err(<<"IDKWhatAServiceCredentialIs">>)
    ELSE Ok(<<[action |-> action, recreate |-> flags.plus,
               boot |-> flags.exclamation, noerror |-> flags.minus,
               force |-> flags.equals],
              flags.tilde>>)

\* parse_type: Ok(<<LineType, base64_decode>>) or the error.
ParseType(bytes) ==
    IF bytes = <<>> THEN Err(<<"EmptyParseType">>)
    ELSE IF Len(bytes) < 1 THEN Err(<<"panic", "todo">>)
    ELSE IF Action(bytes[1]) = None THEN Err(<<"IllegalParseType", bytes[1]>>)
    ELSE LET char == IF bytes[1] = B["F"] THEN B["f"] ELSE bytes[1]
             flags == Modifiers(Tail(bytes), 1,
                        [plus |-> bytes[1] = B["F"], minus |-> FALSE,
                         exclamation |-> FALSE, equals |-> FALSE,
                         tilde |-> FALSE, caret |-> FALSE])
         IN  IF flags.ok THEN TypeOf(Action(bytes[1])[1], char, flags.val)
             ELSE flags

---------------------------------------------------------------------------
(* parse_specifiers and parse_path *)

\* Specifier::parse: the variant of a designator byte, or None.
SpecifierParse(ch) ==
    CASE ch = B["a"] -> Some("Architecture")
      [] ch = B["A"] -> Some("ImageVersion")
      [] ch = B["b"] -> Some("BootID")
      [] ch = B["B"] -> Some("BuildID")
      [] ch = B["C"] -> Some("CacheDir")
      [] ch = B["g"] -> Some("UserGroup")
      [] ch = B["G"] -> Some("UserGID")
      [] ch = B["h"] -> Some("UserHome")
      [] ch = B["H"] -> Some("Hostname")
      [] ch = B["l"] -> Some("ShortHostname")
      [] ch = B["L"] -> Some("LogDir")
      [] ch = B["m"] -> Some("MachineID")
      [] ch = B["M"] -> Some("ImageID")
      [] ch = B["o"] -> Some("OperatingSystemID")
      [] ch = B["S"] -> Some("StateDir")
      [] ch = B["t"] -> Some("TempDir")
      [] ch = B["T"] -> Some("RuntimeDir")
      [] ch = B["u"] -> Some("Username")
      [] ch = B["U"] -> Some("UserUID")
      [] ch = B["v"] -> Some("KernelRelease")
      [] ch = B["V"] -> Some("PersistentTempDir")
      [] ch = B["w"] -> Some("VersionID")
      [] ch = B["W"] -> Some("VariantID")
      [] ch = B["%"] -> Some("PercentSign")
      [] OTHER -> None

RECURSIVE UntilPercent(_, _)
\* take_from_slice_while(ch != `%`): how many bytes of s from offset i on are taken.
UntilPercent(s, i) ==
    IF i < Len(s) /\ s[i + 1] # B["%"] THEN 1 + UntilPercent(s, i + 1) ELSE 0

RECURSIVE SectionsKeepingDesignator(_, _, _)
\* Sections in which the literal is taken from the designator on.
SectionsKeepingDesignator(s, i, sections) ==
    IF i >= Len(s) THEN Ok(sections)
    ELSE IF s[i + 1] # B["%"] THEN Err(<<"panic", "assert">>)
    ELSE IF i + 1 >= Len(s) THEN Err(<<"IncompleteSpecifier">>)
    ELSE LET head == s[i + 2]
             n == UntilPercent(s, i + 2)
         IN  IF SpecifierParse(head) = None THEN Err(<<"InvalidSpecifier", head>>)
             ELSE SectionsKeepingDesignator(s, i + 2 + n,
                           Append(sections,
                                  <<SpecifierParse(head)[1], SubSeq(s, i + 2, i + 2 + n)>>))

RECURSIVE Sections(_, _, _)
\* The while loop of parse_specifiers from offset i on.
Sections(s, i, sections) ==
    IF i >= Len(s) THEN Ok(sections)
    ELSE IF s[i + 1] # B["%"] THEN Err(<<"panic", "assert">>)
    ELSE IF i + 1 >= Len(s) THEN Err(<<"IncompleteSpecifier">>)
    ELSE LET head == s[i + 2]
             n == UntilPercent(s, i + 2)
         IN  IF SpecifierParse(head) = None THEN Err(<<"InvalidSpecifier", head>>)
             ELSE Sections(s, i + 2 + n,
                           Append(sections,
                                  <<SpecifierParse(head)[1], SubSeq(s, i + 3, i + 2 + n)>>))

\* parse_specifiers: Ok(SpecifierString) or the error.
ParseSpecifiers(bytes) ==
    IF \E i \in 1..Len(bytes) : bytes[i] = B["%"]
    THEN LET n == UntilPercent(bytes, 0)
             sections == Sections(bytes, n, <<>>)
         IN  IF sections.ok
             THEN Ok([prefix |-> Prefix(bytes, n), segments |-> sections.val])
             ELSE sections
    ELSE Ok([prefix |-> bytes, segments |-> <<>>])

Contains(s, b) == \E i \in 1..Len(s) : s[i] = b

\* The specifiers that expand to an absolute path.
AbsoluteSpecifiers ==
    {"CacheDir", "UserHome", "LogDir", "StateDir", "RuntimeDir", "TempDir",
     "PersistentTempDir"}

\* CheckPath that accepts any prefix that is not empty.
CheckPathAnyPrefix(string) ==
    IF ~string.ok THEN string
    ELSE IF Contains(string.val.prefix, NUL)
            \/ \E k \in 1..Len(string.val.segments) :
                  Contains(string.val.segments[k][2], NUL)
    THEN Err(<<"NullInPath">>)
    ELSE IF string.val.prefix # <<>> THEN string
    ELSE IF string.val.segments = <<>> THEN Err(<<"EmptyPath">>)
    ELSE IF string.val.segments[1][1] \in AbsoluteSpecifiers THEN string
    ELSE Err(<<"NonabsolutePath">>)

\* CheckPath that looks for NUL in the prefix alone.
CheckPathPrefixNul(string) ==
    IF ~string.ok THEN string
    ELSE IF Contains(string.val.prefix, NUL) THEN Err(<<"NullInPath">>)
    ELSE IF string.val.prefix # <<>> /\ string.val.prefix[1] = B["/"] THEN string
    ELSE IF string.val.prefix # <<>> THEN Err(<<"NonabsolutePath">>)
    ELSE IF string.val.segments = <<>> THEN Err(<<"EmptyPath">>)
    ELSE IF string.val.segments[1][1] \in AbsoluteSpecifiers THEN string
    ELSE Err(<<"NonabsolutePath">>)

\* parse_path once parse_specifiers has returned string.
CheckPath(string) ==
    IF ~string.ok THEN string
    ELSE IF Contains(string.val.prefix, NUL)
            \/ \E k \in 1..Len(string.val.segments) :
                  Contains(string.val.segments[k][2], NUL)
    THEN Err(<<"NullInPath">>)
    ELSE IF string.val.prefix # <<>> /\ string.val.prefix[1] = B["/"] THEN string
    ELSE IF string.val.prefix # <<>> THEN Err(<<"NonabsolutePath">>)
    ELSE IF string.val.segments = <<>> THEN Err(<<"EmptyPath">>)
    ELSE IF string.val.segments[1][1] \in AbsoluteSpecifiers THEN string
    ELSE Err(<<"NonabsolutePath">>)

\* parse_path: Ok(SpecifierString) or the error.
ParsePath(bytes) == CheckPath(ParseSpecifiers(bytes))

---------------------------------------------------------------------------
(* parse_mode and parse_user *)

ModeDigitsMax == 4095        \* 0o7777, the largest value four digits give

\* parse_mode: Ok(Mode) or InvalidMode.
ParseMode(bytes) ==
    LET mode_behavior ==
            IF bytes # <<>> /\ bytes[1] = B[":"] THEN "KeepExisting"
            ELSE IF bytes # <<>> /\ bytes[1] = B["~"] THEN "Masked"
            ELSE "Default"
        digits == IF mode_behavior # "Default" THEN Tail(bytes) ELSE bytes
        mode == FromStrRadix(digits, 8, ModeDigitsMax)
    IN  IF Len(digits) < 3 \/ Len(digits) > 4 THEN Err(<<"InvalidMode">>)
        ELSE IF ~IsUtf8(digits) THEN Err(<<"InvalidMode">>)
        ELSE IF ~mode.ok THEN Err(<<"InvalidMode">>)
        ELSE Ok([value |-> mode.val, mode_behavior |-> mode_behavior])

\* Unsigned integers too wide for the checker are decimal digit sequences,
\* most significant digit first and without leading zeros (zero is <<>>).
RECURSIVE Canonical(_)
Canonical(ds) == IF ds # <<>> /\ ds[1] = 0 THEN Canonical(Tail(ds)) ELSE ds

RECURSIVE LexLeq(_, _)
LexLeq(a, b) ==
    IF a = <<>> THEN TRUE
    ELSE IF a[1] # b[1] THEN a[1] < b[1]
    ELSE LexLeq(Tail(a), Tail(b))

\* a <= b for canonical digit sequences.
NatLeq(a, b) == Len(a) < Len(b) \/ (Len(a) = Len(b) /\ LexLeq(a, b))

U32Max == <<4, 2, 9, 4, 9, 6, 7, 2, 9, 5>>
U64Max == <<1, 8, 4, 4, 6, 7, 4, 4, 0, 7, 3, 7, 0, 9, 5, 5, 1, 6, 1, 5>>

\* The value of the first n digit bytes of digits.
DecimalValue(digits, n) == Canonical([i \in 1..n |-> digits[i] - B["0"]])

\* uN::from_str(s) for a type with maximum max (a digit sequence): as
\* from_str_radix(s, 10), digit by digit, with the value as a digit sequence.
FromStr(s, max) ==
    LET digits == IF s # <<>> /\ s[1] = B["+"] THEN Tail(s) ELSE s
        bad == {i \in 1..Len(digits) :
                    \/ ~IsAsciiDigit(digits[i])
                    \/ /\ \A j \in 1..i : IsAsciiDigit(digits[j])
                       /\ ~NatLeq(DecimalValue(digits, i), max)}
        first == CHOOSE i \in bad : \A j \in bad : i <= j
    IN  IF Len(s) = 0 THEN Err("Empty")
        ELSE IF Len(s) = 1 /\ (s[1] = B["+"] \/ s[1] = B["-"]) THEN Err("InvalidDigit")
        ELSE IF bad = {} THEN Ok(DecimalValue(digits, Len(digits)))
        ELSE IF IsAsciiDigit(digits[first]) THEN Err("PosOverflow")
        ELSE Err("InvalidDigit")

\* parse_user: Ok(FileOwner) or InvalidUsername.
ParseUser(bytes) ==
    LET id == FromStr(bytes, U32Max)
    IN  IF ~IsUtf8(bytes) THEN Err(<<"InvalidUsername">>)
        ELSE IF id.ok THEN Ok(<<"Id", id.val>>)
        ELSE Ok(<<"Name", bytes>>)

---------------------------------------------------------------------------
(* parse_duration and parse_cleanup_age *)

Reverse(s) == [i \in 1..Len(s) |-> s[Len(s) + 1 - i]]

RECURSIVE AddDigits(_, _, _)
\* a + b + carry on digit sequences written least significant digit first.
AddDigits(a, b, carry) ==
    IF a = <<>> /\ b = <<>> THEN IF carry = 0 THEN <<>> ELSE <<carry>>
    ELSE LET x == IF a = <<>> THEN 0 ELSE a[1]
             y == IF b = <<>> THEN 0 ELSE b[1]
         IN  <<(x + y + carry) % 10>>
               \o AddDigits(IF a = <<>> THEN a ELSE Tail(a),
                            IF b = <<>> THEN b ELSE Tail(b), (x + y + carry) \div 10)

RECURSIVE MulDigits(_, _, _)
\* a * k + carry for a small factor k, least significant digit first.
MulDigits(a, k, carry) ==
    IF a = <<>> THEN IF carry = 0 THEN <<>>
                     ELSE <<carry % 10>> \o MulDigits(a, k, carry \div 10)
    ELSE <<(a[1] * k + carry) % 10>>
           \o MulDigits(Tail(a), k, (a[1] * k + carry) \div 10)

NatAdd(a, b) == Canonical(Reverse(AddDigits(Reverse(a), Reverse(b), 0)))
NatMul(a, k) == Canonical(Reverse(MulDigits(Reverse(a), k, 0)))

RECURSIVE NatToInt(_)
\* The integer of a digit sequence of at most nine digits.
NatToInt(ds) == IF ds = <<>> THEN 0 ELSE 10 * NatToInt(Prefix(ds, Len(ds) - 1)) + ds[Len(ds)]

\* a / 10^9 and a % 10^9
NatDivBillion(a) == IF Len(a) <= 9 THEN <<>> ELSE Prefix(a, Len(a) - 9)
NatModBillion(a) == NatToInt(IF Len(a) <= 9 THEN a ELSE SubSeqFrom(a, Len(a) - 9))

Billion == 1000000000

\* A u64 result that saturates at u64::MAX.
CheckedSaturating(n) == Some(IF NatLeq(n, U64Max) THEN n ELSE U64Max)

\* The Option of a u64 result: None when it is above u64::MAX.
Checked(n) == IF NatLeq(n, U64Max) THEN Some(n) ELSE None

\* u64::checked_add on digit sequences.
CheckedAdd(a, b) == Checked(NatAdd(a, b))

\* u64::checked_mul by a small factor.
CheckedMul(a, k) == Checked(NatMul(a, k))

\* Option::and_then(|x| x.checked_add(b))
AndThenAdd(a, b) == IF a = None THEN None ELSE CheckedAdd(a[1], b)

\* A Duration: whole seconds (a digit sequence) and nanoseconds below 10^9.
Duration(secs, nanos) == [secs |-> secs, nanos |-> nanos]

RECURSIVE CarryNanos(_, _)
\* Duration::checked_add once the seconds are added: the carry of the
\* nanoseconds.
CarryNanos(secs, nanos) ==
    IF secs = None THEN None
    ELSE IF nanos < Billion THEN Some(Duration(secs[1], nanos))
    ELSE CarryNanos(AndThenAdd(secs, <<1>>), nanos - Billion)

\* Duration::checked_add losing the nanoseconds of a.
DurationCheckedAddTruncating(a, b) == CarryNanos(CheckedAdd(a.secs, b.secs), b.nanos)

\* Duration::checked_add
DurationCheckedAdd(a, b) == CarryNanos(CheckedAdd(a.secs, b.secs), a.nanos + b.nanos)

MINUTE == 60
HOUR == 3600
DAY == 86400
WEEK == 604800
MONTH == 2629800
YEAR == 31557600

\* DURATION_KEYWORDS: each spelling with the seconds and nanoseconds of its unit.
DurationKeywords ==
    {<<Str(<<"n","s","e","c">>), 0, 1>>, <<Str(<<"n","s">>), 0, 1>>,
     <<Str(<<"u","s","e","c">>), 0, 1000>>, <<Str(<<"u","s">>), 0, 1000>>,
     <<<<205, 188, B["s"]>>, 0, 1000>>, <<<<194, 181, B["s"]>>, 0, 1000>>,
     <<Str(<<"m","s","e","c">>), 0, 1000000>>, <<Str(<<"m","s">>), 0, 1000000>>,
     <<Str(<<"s","e","c","o","n","d","s">>), 1, 0>>,
     <<Str(<<"s","e","c","o","n","d">>), 1, 0>>,
     <<Str(<<"s","e","c">>), 1, 0>>, <<Str(<<"s">>), 1, 0>>, <<<<>>, 1, 0>>,
     <<Str(<<"m","i","n","u","t","e","s">>), MINUTE, 0>>,
     <<Str(<<"m","i","n","u","t","e">>), MINUTE, 0>>,
     <<Str(<<"m","i","n">>), MINUTE, 0>>, <<Str(<<"m">>), MINUTE, 0>>,
     <<Str(<<"h","o","u","r","s">>), HOUR, 0>>, <<Str(<<"h","o","u","r">>), HOUR, 0>>,
     <<Str(<<"h","r">>), HOUR, 0>>, <<Str(<<"h">>), HOUR, 0>>,
     <<Str(<<"m","o","n","t","h","s">>), MONTH, 0>>,
     <<Str(<<"m","o","n","t","h">>), MONTH, 0>>, <<Str(<<"M">>), MONTH, 0>>,
     <<Str(<<"d","a","y","s">>), DAY, 0>>, <<Str(<<"d","a","y">>), DAY, 0>>,
     <<Str(<<"d">>), DAY, 0>>,
     <<Str(<<"w","e","e","k","s">>), WEEK, 0>>, <<Str(<<"w","e","e","k">>), WEEK, 0>>,
     <<Str(<<"w">>), WEEK, 0>>,
     <<Str(<<"y","e","a","r","s">>), YEAR, 0>>, <<Str(<<"y","e","a","r">>), YEAR, 0>>,
     <<Str(<<"y">>), YEAR, 0>>}

RECURSIVE CountWhile(_, _, _)
\* take_from_slice_while: how many bytes of s from offset i on satisfy the
\* predicate (digits: ASCII digits; otherwise ASCII letters and non-ASCII bytes).
CountWhile(s, i, digits) ==
    IF i < Len(s) /\ (IF digits THEN IsAsciiDigit(s[i + 1])
                                ELSE IsAsciiAlphabetic(s[i + 1]) \/ ~IsAscii(s[i + 1]))
    THEN 1 + CountWhile(s, i + 1, digits)
    ELSE 0

\* The Duration of count units, given the nanoseconds of count units'
\* fractions of a second (total_nanos) and the whole seconds (secs).
PartDuration(s, i, next, total_nanos, secs) ==
    IF secs = None THEN Err(<<"OverflowedDuration", SubSeqFrom(s, i)>>)
    ELSE Ok([duration |-> Duration(secs[1], NatModBillion(total_nanos)), next |-> next])

\* parse_duration_part once the count and the key are taken.
PartOf(s, i, next, count, key, units) ==
    IF ~count.ok THEN Err(<<"InvalidDurationInt", count.err>>)
    ELSE IF units = {} THEN Err(<<"InvalidDurationKeyword", key>>)
    ELSE LET unit == CHOOSE u \in units : TRUE
             total_nanos == NatMul(count.val, unit[3])
         IN  PartDuration(s, i, next, total_nanos,
                          AndThenAdd(CheckedMul(count.val, unit[2]),
                                     NatDivBillion(total_nanos)))

\* The key of a part whose count is nc bytes long.
PartKey(s, i, nc, nk, count) ==
    PartOf(s, i, i + nc + nk, count, SubSeq(s, i + nc + 1, i + nc + nk),
           {u \in DurationKeywords : u[1] = SubSeq(s, i + nc + 1, i + nc + nk)})

\* The count of a part: nc bytes.
PartCount(s, i, nc) ==
    PartKey(s, i, nc, CountWhile(s, i + nc, FALSE), FromStr(SubSeq(s, i + 1, i + nc), U64Max))

\* parse_duration_part on s from offset i on: Ok of the Duration and the
\* offset after the part, or the error.
ParseDurationPart(s, i) == PartCount(s, i, CountWhile(s, i, TRUE))

RECURSIVE DurationLoop(_, _, _)
RECURSIVE DurationAdd(_, _, _)

\* acc.checked_add(part?), then the rest of the loop.
DurationAdd(s, acc, part) ==
    IF ~part.ok THEN part
    ELSE IF acc = None THEN Err(<<"OverflowedDuration", s>>)
    ELSE DurationLoop(s, part.val.next, DurationCheckedAdd(acc[1], part.val.duration))

\* The while loop of parse_duration from offset i on; acc is the Option of
\* the checked sum so far.
DurationLoop(s, i, acc) ==
    IF acc = None THEN Err(<<"OverflowedDuration", s>>)
    ELSE IF i >= Len(s) THEN Ok(acc[1])
    ELSE DurationAdd(s, acc, ParseDurationPart(s, i))

\* parse_duration once its first part is parsed.
DurationFrom(s, first) ==
    IF ~first.ok THEN first
    ELSE DurationLoop(s, first.val.next, Some(first.val.duration))

\* parse_duration: Ok(Duration) or the error.
ParseDuration(s) == DurationFrom(s, ParseDurationPart(s, 0))

\* CleanupAge::EMPTY and CleanupAge::default()
AgeFlags(v) ==
    [second_level |-> FALSE,
     consider_atime |-> v, consider_atime_dir |-> v,
     consider_btime |-> v, consider_btime_dir |-> v,
     consider_ctime |-> v, consider_ctime_dir |-> FALSE,
     consider_mtime |-> v, consider_mtime_dir |-> v,
     age |-> Duration(<<>>, 0)]

EMPTY == AgeFlags(TRUE)

\* The flag a letter of the age field names, or None.
AgeFlag(ch) ==
    CASE ch = B["a"] -> Some("consider_atime")
      [] ch = B["A"] -> Some("consider_atime_dir")
      [] ch = B["b"] -> Some("consider_btime")
      [] ch = B["B"] -> Some("consider_btime_dir")
      [] ch = B["c"] -> Some("consider_ctime")
      [] ch = B["C"] -> Some("consider_ctime_dir")
      [] ch = B["m"] -> Some("consider_mtime")
      [] ch = B["M"] -> Some("consider_mtime_dir")
      [] OTHER -> None

RECURSIVE AgeLetters(_, _, _)
\* The for loop of parse_cleanup_age_by from index i on.
AgeLetters(s, i, flags) ==
    IF i > Len(s) THEN Ok(flags)
    ELSE IF AgeFlag(s[i]) = None THEN Err(<<"InvalidCleanupSpecifier", s[i]>>)
    ELSE IF flags[AgeFlag(s[i])[1]] THEN Err(<<"DuplicateCleanupSpecifier", s[i]>>)
    ELSE AgeLetters(s, i + 1, [flags EXCEPT ![AgeFlag(s[i])[1]] = TRUE])

\* parse_cleanup_age_by with its flags starting from CleanupAge::EMPTY.
ParseCleanupAgeByFromEmpty(bytes) ==
    LET second_level == bytes # <<>> /\ bytes[1] = B["~"]
        letters == IF second_level THEN Tail(bytes) ELSE bytes
    IN  IF letters = <<>> THEN Err(<<"EmptyCleanupSpecifierList">>)
        ELSE AgeLetters(letters, 1, [EMPTY EXCEPT !.second_level = second_level])

\* parse_cleanup_age_by: Ok(CleanupAge) or the error.
ParseCleanupAgeBy(bytes) ==
    LET second_level == bytes # <<>> /\ bytes[1] = B["~"]
        letters == IF second_level THEN Tail(bytes) ELSE bytes
    IN  IF letters = <<>> THEN Err(<<"EmptyCleanupSpecifierList">>)
        ELSE AgeLetters(letters, 1,
                        [AgeFlags(FALSE) EXCEPT !.second_level = second_level])

\* The offsets (1-based) of the colons of s.
Colons(s) == {i \in 1..Len(s) : s[i] = B[":"]}

\* cleanup_age.age = parse_duration(duration)?
WithAge(cleanup_age, duration) ==
    IF ~duration.ok THEN duration ELSE Ok([cleanup_age EXCEPT !.age = duration.val])

\* parse_cleanup_age once the flags before the colon are parsed.
AgeOf(by, duration) == IF ~by.ok THEN by ELSE WithAge(by.val, ParseDuration(duration))

\* parse_cleanup_age splitting at the first colon only.
ParseCleanupAgeFirstColon(bytes) ==
    LET colons == Colons(bytes)
        colon == CHOOSE i \in colons : \A j \in colons : i <= j
    IN  IF colons = {} THEN AgeOf(Ok(EMPTY), bytes)
        ELSE AgeOf(ParseCleanupAgeBy(Prefix(bytes, colon - 1)), SubSeqFrom(bytes, colon))

\* parse_cleanup_age: Ok(CleanupAge) or the CleanupParseError.
ParseCleanupAge(bytes) ==
    LET colons == Colons(bytes)
        colon == CHOOSE i \in colons : TRUE
    IN  IF Cardinality(colons) + 1 = 0 THEN Err(<<"panic", "unreachable">>)
        ELSE IF colons = {} THEN AgeOf(Ok(EMPTY), bytes)
        ELSE IF Cardinality(colons) = 1
        THEN AgeOf(ParseCleanupAgeBy(Prefix(bytes, colon - 1)), SubSeqFrom(bytes, colon))
        ELSE Err(<<"Malformed", bytes>>)

---------------------------------------------------------------------------
(* parse_argument *)

\* The value of a symbol of the standard base64 alphabet, or -1.
Base64Value(b) ==
    IF B["A"] <= b /\ b <= B["Z"] THEN b - B["A"]
    ELSE IF B["a"] <= b /\ b <= B["z"] THEN b - B["a"] + 26
    ELSE IF IsAsciiDigit(b) THEN b - B["0"] + 52
    ELSE IF b = B["+"] THEN 62
    ELSE IF b = B["/"] THEN 63
    ELSE -1

RECURSIVE Base64Bytes(_)
\* The bytes of a sequence of symbol values: three per four symbols, then one
\* for a last two and two for a last three.
Base64Bytes(v) ==
    IF Len(v) < 2 THEN <<>>
    ELSE IF Len(v) = 2 THEN <<v[1] * 4 + v[2] \div 16>>
    ELSE IF Len(v) = 3 THEN <<v[1] * 4 + v[2] \div 16, (v[2] % 16) * 16 + v[3] \div 4>>
    ELSE <<v[1] * 4 + v[2] \div 16, (v[2] % 16) * 16 + v[3] \div 4, (v[3] % 4) * 64 + v[4]>>
           \o Base64Bytes(SubSeqFrom(v, 4))

\* BASE64_STANDARD.decode: canonical padding is required and the unused bits
\* of the last symbol must be zero. The DecodeError is not told apart.
Base64Decode(s) ==
    LET n == Len(s)
        pad == IF n >= 2 /\ s[n] = B["="] /\ s[n - 1] = B["="] THEN 2
               ELSE IF n >= 1 /\ s[n] = B["="] THEN 1 ELSE 0
        v == [i \in 1..(n - pad) |-> Base64Value(s[i])]
    IN  IF n % 4 # 0 \/ (\E i \in 1..(n - pad) : v[i] < 0) THEN Err(<<"Base64Decode">>)
        ELSE IF pad = 1 /\ v[n - 1] % 4 # 0 THEN Err(<<"Base64Decode">>)
        ELSE IF pad = 2 /\ v[n - 2] % 16 # 0 THEN Err(<<"Base64Decode">>)
        ELSE Ok(Base64Bytes(v))

\* Result::map(Some)
SomeOf(r) == IF r.ok THEN Ok(Some(r.val)) ELSE r

\* ParseArgument that decodes base64 whatever the modifiers.
ParseArgumentDecoding(bytes, base64_decode) ==
    IF bytes = <<>> THEN Ok(None) ELSE SomeOf(Base64Decode(bytes))

\* parse_argument: Ok(Option<OsString>) or the error.
ParseArgument(bytes, base64_decode) ==
    IF bytes = <<>> THEN Ok(None)
    ELSE IF base64_decode THEN SomeOf(Base64Decode(bytes))
    ELSE Ok(Some(bytes))

---------------------------------------------------------------------------
(* parse_line *)

Dash == <<B["-"]>>

\* Optional without the sentinel.
OptionalWithoutSentinel(r, bytes) == IF r.ok THEN Ok(Some(r.val)) ELSE r

\* optional(f) and try_optional(f) on the bytes of a field: `-` is None.
Optional(r, bytes) == IF bytes = Dash THEN Ok(None) ELSE IF r.ok THEN Ok(Some(r.val)) ELSE r

\* Option::unwrap_or_default on the bytes take_field returned.
UnwrapOrDefault(data) == IF data = None THEN <<>> ELSE data[1]

\* The type field: Ok of the LineType and the base64_decode flag.
TypeField(data) == ParseType(UnwrapOrDefault(data))

\* The path field.
PathField(data) == ParsePath(UnwrapOrDefault(data))

\* The mode field: try_then(try_optional(parse_mode)).
ModeField(data) == IF data = None THEN Ok(None) ELSE Optional(ParseMode(data[1]), data[1])

\* The owner and group fields: try_then(try_optional(parse_user)).
UserField(data) == IF data = None THEN Ok(None) ELSE Optional(ParseUser(data[1]), data[1])

\* The conversion of a CleanupParseError, then unwrap_or(EMPTY).
AgeOrEmpty(age) ==
    IF ~age.ok THEN Err(<<"InvalidCleanupAge", age.err>>)
    ELSE IF age.val = None THEN Ok(Some(EMPTY))
    ELSE age

\* The age field: try_opt_map(try_optional(parse_cleanup_age)), then
\* opt_map(unwrap_or(EMPTY)).
AgeField(data) ==
    IF data = None THEN Ok(None)
    ELSE AgeOrEmpty(Optional(ParseCleanupAge(data[1]), data[1]))

\* return from parse_line
Return(r) ==
    /\ result' = Some(r)
    /\ pc' = "done"
    /\ UNCHANGED <<outer, source, input, cursor, quotation, field, token, column, line>>

\* The check for leading whitespace.
ParseLineStart ==
    /\ pc = "parse_line"
    /\ IF input.bytes # <<>> /\ IsInlineWhitespace(input.bytes[1])
       THEN Return(Err(<<"LeadingWhitespace">>))
       ELSE /\ pc' = "take_field"
            /\ column' = 1
            /\ UNCHANGED <<outer, source, input, cursor, quotation, field, token, line, result>>

\* DecodeField without the `?` on what the decoders after the type return: the
\* field that failed is left None.
DecodeFieldLenient(col, decoded) ==
    /\ pc = "field_returned"
    /\ column = col
    /\ IF ~token.ok /\ token.err[1] = "panic" THEN Return(token)
       ELSE IF ~token.ok THEN Return(Err(<<"Field", token.err>>))
       ELSE IF ~decoded.ok /\ col = 1 THEN Return(decoded)
       ELSE /\ line' = Append(line, [token.val EXCEPT
                                        !.data = IF decoded.ok THEN decoded.val ELSE None])
            /\ pc' = "whitespace"
            /\ UNCHANGED <<outer, source, input, cursor, quotation, field, token, column, result>>

\* The `?` on what take_field returned and on what the decoder of the column
\* returned for it.
DecodeField(col, decoded) ==
    /\ pc = "field_returned"
    /\ column = col
    /\ IF ~token.ok /\ token.err[1] = "panic" THEN Return(token)
       ELSE IF ~token.ok THEN Return(Err(<<"Field", token.err>>))
       ELSE IF ~decoded.ok THEN Return(decoded)
       ELSE /\ line' = Append(line, [token.val EXCEPT !.data = decoded.val])
            /\ pc' = "whitespace"
            /\ UNCHANGED <<outer, source, input, cursor, quotation, field, token, column, result>>

DecodeType == DecodeField(1, TypeField(token.val.data))
DecodePath == DecodeField(2, PathField(token.val.data))
DecodeMode == DecodeField(3, ModeField(token.val.data))
DecodeOwner == DecodeField(4, UserField(token.val.data))
DecodeGroup == DecodeField(5, UserField(token.val.data))
DecodeAge == DecodeField(6, AgeField(token.val.data))

\* take_inline_whitespace, then the next statement of parse_line.
SkipInlineWhitespace ==
    /\ pc = "whitespace"
    /\ input' = TakeInlineWhitespace(input)
    /\ IF column < 6
       THEN pc' = "take_field" /\ column' = column + 1
       ELSE pc' = "argument" /\ UNCHANGED column
    /\ UNCHANGED <<outer, source, cursor, quotation, field, token, line, result>>

\* The Line parse_line builds from the six fields and the argument.
Line(fields, argument) ==
    [line_type |-> [fields[1] EXCEPT !.data = fields[1].data[1]],
     path |-> fields[2], mode |-> fields[3], owner |-> fields[4],
     group |-> fields[5], age |-> fields[6], argument |-> argument]

\* What parse_line returns once the argument is parsed.
LineOf(fields, span, argument) ==
    IF argument.ok THEN Ok(Line(fields, Spanned(argument.val, span.start, span.end)))
    ELSE argument

\* The argument: what is left of the line, through parse_argument.
ParseLineArgument ==
    /\ pc = "argument"
    /\ Return(LineOf(line, input, ParseArgument(input.bytes, line[1].data[2])))

---------------------------------------------------------------------------
(* Lines and parsed_config *)

\* The test of the while loop of Lines::next with the newline left out: the
\* loop stops at the end of the bytes only.
LineGoesOnAcrossNewline(ch) == ch # None

\* The test of the while loop of Lines::next.
LineGoesOn(ch) == ch # None /\ ch[1] # LF

RECURSIVE LineEnd(_, _)
\* The cursor after the while loop of Lines::next.
LineEnd(span, c) == IF LineGoesOn(Peek(span, c)) THEN LineEnd(span, c + 1) ELSE c

\* The newline left where it is.
SkipNewlineNever(span) == span

\* What Lines::next does after it split the line off: a cursor advanced once
\* and split off, when bytes are left.
SkipNewline(span) == IF span.bytes # <<>> THEN SplitOffBeginning(span, 1).rest ELSE span

\* Some(line) from Lines::next: the line goes to the caller, the iterator
\* keeps what is after the newline.
YieldLine(cut) ==
    /\ yielded' = Append(yielded, cut.split)
    /\ lines' = SkipNewline(cut.rest)
    /\ pc' = "for_line"

\* Lines::next
LinesNext ==
    /\ pc = "lines_next"
    /\ IF lines.bytes = <<>>
       THEN pc' = "lines_none" /\ UNCHANGED <<lines, yielded>>
       ELSE YieldLine(SplitOffBeginning(lines, LineEnd(lines, 0)))
    /\ UNCHANGED <<source, input, cursor, quotation, field, token, column, line, result,
                   files, config>>

\* A for loop over span.lines() with an empty body.
ForLine ==
    /\ pc = "for_line"
    /\ pc' = "lines_next"
    /\ UNCHANGED <<source, input, cursor, quotation, field, token, column, line, result,
                   outer>>

\* parsed_config, the loop over the files: the next file is read and its
\* lines iterated, or the Vec is returned.
ConfigNextFile ==
    /\ pc \in {"parsed_config", "lines_none"}
    /\ IF files = <<>>
       THEN pc' = "returned" /\ UNCHANGED <<source, files, lines, yielded>>
       ELSE /\ source' = Head(files)
            /\ files' = Tail(files)
            /\ lines' = FromSlice(Head(files))
            /\ yielded' = <<>>
            /\ pc' = "lines_next"
    /\ UNCHANGED <<input, cursor, quotation, field, token, column, line, result, config>>

\* parsed_config, the body of the loop over the lines: comments and empty
\* lines are skipped, any other line goes to parse_line.
ConfigLine ==
    /\ pc = "for_line"
    /\ LET item == yielded[Len(yielded)]
       IN  IF item.bytes = <<>> \/ item.bytes[1] = B["#"]
           THEN /\ pc' = "lines_next"
                /\ UNCHANGED <<input, cursor, quotation, field, token, column, line, result>>
           ELSE /\ input' = item
                /\ cursor' = 0
                /\ quotation' = None
                /\ field' = <<>>
                /\ token' = None
                /\ column' = 0
                /\ line' = <<>>
                /\ result' = None
                /\ pc' = "parse_line"
    /\ UNCHANGED <<source, outer>>

\* parsed_config, after parse_line: the Line is pushed, or unwrap_or_else
\* runs todo!.
ConfigPush ==
    /\ pc = "done"
    /\ IF result[1].ok
       THEN config' = Append(config, result[1].val) /\ pc' = "lines_next"
       ELSE pc' = "todo" /\ UNCHANGED config
    /\ UNCHANGED <<source, input, cursor, quotation, field, token, column, line, result,
                   files, lines, yielded>>

---------------------------------------------------------------------------
(* Inputs *)

\* The byte strings over alphabet of length at most n.
SeqsUpTo(alphabet, n) == UNION {[1..k -> alphabet] : k \in 0..n}

MaxFieldLen == 3

\* Bytes that take_field tells apart: the backslash, the hex marker, an octal
\* digit, a digit that is not octal, a hex letter, the letters with an escape,
\* the sign the integer parser accepts, the quotes, whitespace and a byte that
\* is not UTF-8.
FieldAlphabet ==
    {B["\\"], B["x"], B["7"], B["8"], B["f"], B["n"], B["r"], B["t"], B["+"],
     B["\""], B["'"], B[" "], 255}

\* An optional opening quote, an optional \x, then any bytes of the alphabet.
FieldInputs ==
    {open \o lead \o body : open \in {<<>>, <<B["\""]>>, <<B["'"]>>},
                            lead \in {<<>>, <<B["\\"], B["x"]>>},
                            body \in SeqsUpTo(FieldAlphabet, MaxFieldLen)}

---------------------------------------------------------------------------
(* take_field on its own *)

InitField ==
    /\ source \in FieldInputs
    /\ input = FromSlice(source)
    /\ cursor = 0
    /\ quotation = None
    /\ field = <<>>
    /\ token = None
    /\ column = 0
    /\ pc = "take_field"
    /\ line = <<>>
    /\ result = None
    /\ NoCaller

NextField == TakeFieldBegin \/ TakeFieldLoop

SpecField == InitField /\ [][NextField]_vars

---------------------------------------------------------------------------
(* parse_line on whole lines *)

\* Fields of each column, well-formed and not.
TypeTokens ==
    {Str(<<"f">>), Str(<<"L", "+">>), Str(<<"R", "!">>), Str(<<"Z", "+">>), Str(<<"f", "'">>)}
PathTokens ==
    {Str(<<"/", "a">>), Str(<<"%", "h">>), Str(<<"a">>), Str(<<"\"", "/">>)}
ModeTokens ==
    {Dash, Str(<<"6", "4", "4">>), Str(<<"-", "x">>), Str(<<"\\", "1">>)}
OwnerTokens ==
    {Dash, Str(<<"r", "o", "o", "t">>), Str(<<"\\", "x", "F", "F">>)}
GroupTokens ==
    {Dash, Str(<<"0">>), Str(<<"\\", "x", "f", "f">>)}
AgeTokens ==
    {Dash, Str(<<"1", "s", "1", "m">>), Str(<<"A", "A", ":">>), Str(<<"\\">>)}
ArgumentTokens ==
    {Dash, Str(<<"/", "c", " ", "d">>)}

Tokens ==
    <<TypeTokens, PathTokens, ModeTokens, OwnerTokens, GroupTokens, AgeTokens,
      ArgumentTokens>>

\* The whitespace put between two fields.
Separators == {<<B[" "]>>, <<TAB, B[" "]>>}

RECURSIVE Fields(_)
\* The choices of one field for each of the first n columns.
Fields(n) ==
    IF n = 0 THEN {<<>>}
    ELSE LET shorter == Fields(n - 1)
         IN  {Append(f, t) : f \in shorter, t \in Tokens[n]}

RECURSIVE Join(_, _)
\* The fields f in order with the separator sep between them.
Join(f, sep) ==
    IF f = <<>> THEN <<>>
    ELSE IF Len(f) = 1 THEN f[1]
    ELSE f[1] \o sep \o Join(Tail(f), sep)

\* Lines that begin with whitespace.
Indented == {<<B[" "]>>, <<TAB>>, <<TAB, B["f"]>>, <<B[" "], B["f"], B[" "], B["/"]>>}

\* A line is some fields of the leading columns in order, with or without
\* whitespace after the last, or an indented line.
Init ==
    /\ \/ \E n \in 0..Len(Tokens), sep \in Separators, trailing \in {<<>>, <<B[" "]>>} :
            \E f \in Fields(n) : source = Join(f, sep) \o trailing
       \/ source \in Indented
    /\ input = FromSlice(source)
    /\ cursor = 0
    /\ quotation = None
    /\ field = <<>>
    /\ token = None
    /\ column = 0
    /\ pc = "parse_line"
    /\ line = <<>>
    /\ result = None
    /\ NoCaller

Next ==
    \/ ParseLineStart
    \/ TakeFieldBegin
    \/ TakeFieldLoop
    \/ DecodeType
    \/ DecodePath
    \/ DecodeMode
    \/ DecodeOwner
    \/ DecodeGroup
    \/ DecodeAge
    \/ SkipInlineWhitespace
    \/ ParseLineArgument

Spec == Init /\ [][Next]_vars

---------------------------------------------------------------------------
(* parse_line up to its type field, on every short type field *)

MaxModifiers == 3

\* Every action letter of parse_type and a letter that is none.
TypeLetters ==
    {B[c] : c \in {"f", "F", "w", "d", "v", "q", "Q", "D", "e", "p", "L", "c", "b",
                   "C", "x", "X", "r", "R", "z", "Z", "t", "T", "h", "H", "a", "A",
                   "B"}}

\* The six modifiers and a byte that is none.
ModifierAlphabet == {B["+"], B["-"], B["!"], B["="], B["~"], B["^"], B["x"]}

TypeInputs ==
    {<<letter>> \o modifiers : letter \in TypeLetters,
                               modifiers \in SeqsUpTo(ModifierAlphabet, MaxModifiers)}

InitType ==
    /\ source \in TypeInputs
    /\ input = FromSlice(source)
    /\ cursor = 0
    /\ quotation = None
    /\ field = <<>>
    /\ token = None
    /\ column = 0
    /\ pc = "parse_line"
    /\ line = <<>>
    /\ result = None
    /\ NoCaller

NextType == ParseLineStart \/ TakeFieldBegin \/ TakeFieldLoop \/ DecodeType

SpecType == InitType /\ [][NextType]_vars

---------------------------------------------------------------------------
(* parse_line on lines that differ in what follows the age field *)

MaxArgLen == 3

\* Whitespace, the bytes take_field would decode, the sentinel, and base64.
ArgumentAlphabet ==
    {B[" "], TAB, B["\""], B["\\"], B["-"], B["n"], B["A"], B["="]}

\* Six well-formed fields, without and with the modifier for base64.
ArgumentPrefixes ==
    {Str(<<"f", " ", "/", "a", " ", "-", " ", "-", " ", "-", " ", "-">>),
     Str(<<"w", "~", " ", "/", "a", " ", "-", " ", "-", " ", "-", " ", "1", "s">>)}

ArgumentInputs ==
    {prefix \o rest : prefix \in ArgumentPrefixes,
                      rest \in {<<>>} \cup {<<B[" "]>> \o a : a \in SeqsUpTo(ArgumentAlphabet, MaxArgLen)}}

InitArgument ==
    /\ source \in ArgumentInputs
    /\ input = FromSlice(source)
    /\ cursor = 0
    /\ quotation = None
    /\ field = <<>>
    /\ token = None
    /\ column = 0
    /\ pc = "parse_line"
    /\ line = <<>>
    /\ result = None
    /\ NoCaller

SpecArgument == InitArgument /\ [][Next]_vars

---------------------------------------------------------------------------
(* Claims about take_field, under SpecField *)

\* take_field is at a backslash.
AtBackslash == pc = "loop" /\ Peek(input, cursor) = Some(B["\\"])

\* The byte after that backslash, if any.
EscapedByte == Peek(input, cursor + 1)

\* The escapes that stand for one byte, and the byte of each.
SimpleEscape ==
    (B["n"] :> LF) @@ (B["r"] :> CR) @@ (B["t"] :> TAB) @@ (B["\\"] :> B["\\"])
    @@ (B["'"] :> B["'"]) @@ (B["\""] :> B["\""])

\* The step appends byte b alone, having read n bytes, and the loop goes on.
Appends(b, n) ==
    /\ field' = Append(field, b)
    /\ cursor' = cursor + n
    /\ pc' = "loop"
    /\ UNCHANGED <<input, token, quotation>>

\* The step makes take_field return the error e, nothing decoded.
FailsWith(e) ==
    /\ token' = Err(e)
    /\ pc' = "field_returned"
    /\ UNCHANGED <<input, field>>

\* C9: in take_field, in quoted and unquoted fields alike, a backslash followed
\* by n, r, t, backslash, single quote or double quote appends exactly the
\* corresponding single byte; a backslash followed by a digit 0-7 fails with
\* UnsupportedOctalEscape; a backslash that is the last byte of the line fails
\* with TrailingBackslash; a backslash followed by any other byte b except x
\* fails with UnrecognizedEscape(b).
C9_Escapes ==
    [][AtBackslash =>
         IF EscapedByte = None THEN FailsWith(<<"TrailingBackslash">>)
         ELSE IF EscapedByte[1] \in DOMAIN SimpleEscape
         THEN Appends(SimpleEscape[EscapedByte[1]], 2)
         ELSE IF EscapedByte[1] \in B["0"]..B["7"]
         THEN FailsWith(<<"UnsupportedOctalEscape">>)
         ELSE IF EscapedByte[1] = B["x"] THEN TRUE
         ELSE FailsWith(<<"UnrecognizedEscape", EscapedByte[1]>>)]_vars

\* C9: a quoted field in which \n was decoded to a line feed and whose next
\* backslash ended the line.
C9_Witness ==
    /\ pc = "field_returned"
    /\ quotation # None
    /\ field = <<LF>>
    /\ token = Err(<<"TrailingBackslash">>)

\* The hexadecimal digits and their values.
HexDigit ==
    [b \in (B["0"]..B["9"]) \cup (B["a"]..B["f"]) \cup (B["A"]..B["F"]) |->
        IF b <= B["9"] THEN b - B["0"]
        ELSE IF b >= B["a"] THEN b - B["a"] + 10
        ELSE b - B["A"] + 10]

\* The bytes after the x of an escape \x at the cursor.
AfterX == SubSeqFrom(input.bytes, cursor + 2)

\* C10: in take_field, \x consumes exactly the two following bytes and decodes
\* them to one byte only when both are hexadecimal digits (the byte being their
\* base-16 value); if either is not a hexadecimal digit the result is
\* InvalidHexEscape, and if fewer than two bytes remain after \x the result is
\* UnfinishedHexEscape.
C10_HexEscape ==
    [][AtBackslash /\ EscapedByte = Some(B["x"]) =>
         IF Len(AfterX) < 2 THEN FailsWith(<<"UnfinishedHexEscape">>)
         ELSE IF AfterX[1] \in DOMAIN HexDigit /\ AfterX[2] \in DOMAIN HexDigit
         THEN Appends(16 * HexDigit[AfterX[1]] + HexDigit[AfterX[2]], 4)
         ELSE FailsWith(<<"InvalidHexEscape">>)]_vars

---------------------------------------------------------------------------
(* Claims about parse_type, under SpecType: the line is one unquoted field
   without escapes, so the bytes of the type field are those of the line *)

\* parse_line has decoded the type field, or returned its error.
TypeDecoded == column = 1 /\ pc \in {"whitespace", "done"}

\* What parse_type returned for the type field.
TypeResult == IF pc = "done" THEN result[1] ELSE Ok(line[1].data)

Letter == source[1]
Mods == Tail(source)

Has(s, b) == \E i \in 1..Len(s) : s[i] = b
Distinct(s) == \A i, j \in 1..Len(s) : i # j => s[i] # s[j]
Twice(s, b) == \E i, j \in 1..Len(s) : i # j /\ s[i] = b /\ s[j] = b

\* The bytes the claims call modifiers.
ModifierBytes == {B["+"], B["-"], B["!"], B["="], B["~"], B["^"]}
AllModifiers(s) == \A i \in 1..Len(s) : s[i] \in ModifierBytes

\* The actions recreate may go with, and the letters that stand for them.
RecreateActions ==
    {"CreateFile", "WriteFile", "CreateFifo", "CreateSymlink", "CreateCharDevice",
     "CreateBlockDevice", "Copy", "SetAcl", "SetAclRecursive"}
PlusLetters == {B[c] : c \in {"f", "F", "w", "p", "L", "c", "b", "C", "a", "A"}}

\* C6: in every LineType parse_type returns, recreate is true exactly when the
\* letter is F or the modifiers contain +, and then the action is one of the
\* nine that may be recreated; a + on any other action letter, the modifiers
\* being legal and not repeated, fails with InvalidTypeCombination(letter, +);
\* F followed by modifiers m gives the same result as f+ followed by m.
C6_Recreate ==
    TypeDecoded =>
      /\ TypeResult.ok =>
            /\ TypeResult.val[1].recreate <=> (Letter = B["F"] \/ Has(Mods, B["+"]))
            /\ TypeResult.val[1].recreate => TypeResult.val[1].action \in RecreateActions
      /\ ( /\ Action(Letter) # None
           /\ Letter \notin PlusLetters
           /\ AllModifiers(Mods) /\ Distinct(Mods) /\ Has(Mods, B["+"]) )
            => TypeResult = Err(<<"InvalidTypeCombination", Letter, B["+"]>>)
      /\ Letter = B["F"] => TypeResult = ParseType(<<B["f"], B["+"]>> \o Mods)

\* C6: F with modifiers was decoded to a LineType with recreate set.
C6_Witness ==
    /\ TypeDecoded
    /\ Letter = B["F"]
    /\ Mods # <<>>
    /\ TypeResult.ok
    /\ TypeResult.val[1].recreate

\* C7 as claimed: for every type field with a recognized action letter whose
\* modifiers include ^, parse_type returns IDKWhatAServiceCredentialIs.
C7_CaretAlways ==
    TypeDecoded /\ Action(Letter) # None /\ Has(Mods, B["^"])
        => TypeResult = Err(<<"IDKWhatAServiceCredentialIs">>)

\* The checks parse_type makes before it looks at ^ all pass: the modifiers
\* are legal, none is repeated (F counting as a +), and + is on a letter that
\* allows it.
EarlierChecksPass ==
    /\ AllModifiers(Mods)
    /\ Distinct(Mods)
    /\ ~(Letter = B["F"] /\ Has(Mods, B["+"]))
    /\ Has(Mods, B["+"]) => Letter \in PlusLetters

\* C7, amended: a type field with a recognized action letter whose modifiers
\* include ^ is never accepted; parse_type returns
\* IDKWhatAServiceCredentialIs for it when the modifiers are all legal, none is
\* repeated (F counting as a +) and + is only on a letter that allows it, and
\* otherwise the error of the earlier check that fails: InvalidTypeModifier,
\* DuplicateTypeModifier or InvalidTypeCombination.
C7_CaretRejected ==
    TypeDecoded /\ Action(Letter) # None /\ Has(Mods, B["^"]) =>
      /\ ~TypeResult.ok
      /\ IF EarlierChecksPass
         THEN TypeResult = Err(<<"IDKWhatAServiceCredentialIs">>)
         ELSE TypeResult.err[1] \in
                {"InvalidTypeModifier", "DuplicateTypeModifier", "InvalidTypeCombination"}

\* C7: a legal + and a ^ were rejected as the service credential.
C7_Witness ==
    /\ TypeDecoded
    /\ Has(Mods, B["^"])
    /\ Has(Mods, B["+"])
    /\ TypeResult = Err(<<"IDKWhatAServiceCredentialIs">>)

\* The ways to reorder n things.
Orderings ==
    [n \in 0..MaxModifiers |->
        {p \in [1..n -> 1..n] : \A i, j \in 1..n : i # j => p[i] # p[j]}]

\* Any two orderings of the same distinct modifiers give equal results.
OrderIrrelevant ==
    AllModifiers(Mods) /\ Distinct(Mods) =>
        \A p \in Orderings[Len(Mods)] :
            ParseType(<<Letter>> \o [i \in 1..Len(Mods) |-> Mods[p[i]]]) = TypeResult

\* C8 as claimed: for any action letter, any two orderings of the same distinct
\* modifiers give equal results, and a type field whose modifiers are all
\* modifier bytes, one of them occurring twice, fails with
\* DuplicateTypeModifier(c), c being the repeated byte.
C8_Duplicate ==
    TypeDecoded /\ Action(Letter) # None =>
      /\ OrderIrrelevant
      /\ AllModifiers(Mods) /\ ~Distinct(Mods) =>
            \E c \in ModifierBytes :
                Twice(Mods, c) /\ TypeResult = Err(<<"DuplicateTypeModifier", c>>)

\* C8, amended: for any action letter, any two orderings of the same distinct
\* modifiers give equal results, and a type field whose modifiers are all
\* modifier bytes, one of them occurring twice, fails with
\* DuplicateTypeModifier(c), c being a byte that occurs twice, or the + that
\* follows an F (which already stands for one +).
C8_DuplicateOrF ==
    TypeDecoded /\ Action(Letter) # None =>
      /\ OrderIrrelevant
      /\ AllModifiers(Mods) /\ ~Distinct(Mods) =>
            \E c \in ModifierBytes :
                /\ Twice(Mods, c) \/ (Letter = B["F"] /\ c = B["+"] /\ Has(Mods, c))
                /\ TypeResult = Err(<<"DuplicateTypeModifier", c>>)

\* C8: after F, a single + before a repeated modifier was reported as the
\* duplicate.
C8_Witness ==
    /\ TypeDecoded
    /\ Letter = B["F"]
    /\ Len(Mods) = 3
    /\ Mods[1] = B["+"]
    /\ Mods[2] = Mods[3]
    /\ Mods[2] # B["+"]
    /\ TypeResult = Err(<<"DuplicateTypeModifier", B["+"]>>)

---------------------------------------------------------------------------
(* Claims about parse_line, under Spec *)

\* The decoder of each column.
FieldDecoder(col, data) ==
    CASE col = 1 -> TypeField(data)
      [] col = 2 -> PathField(data)
      [] col = 3 -> ModeField(data)
      [] col \in {4, 5} -> UserField(data)
      [] col = 6 -> AgeField(data)

\* What tokenizing and decoding the field of column col gives, t being what
\* take_field returned for it.
FieldOutcome(col, t) ==
    IF ~t.ok THEN Err(<<"Field", t.err>>) ELSE FieldDecoder(col, t.val.data)

RECURSIVE FirstFailure(_, _, _)
\* The leftmost field that fails among those of column col and after, read
\* from span: Some(<<column, error>>), the argument being column 7, or None
\* when no field fails.
FirstFailure(span, col, base64_decode) ==
    IF col = 7
    THEN LET argument == ParseArgument(span.bytes, base64_decode)
         IN  IF argument.ok THEN None ELSE Some(<<7, argument.err>>)
    ELSE LET t == TakeField(span)
             outcome == FieldOutcome(col, t)
         IN  IF ~outcome.ok THEN Some(<<col, outcome.err>>)
             ELSE FirstFailure(TakeInlineWhitespace(t.rest), col + 1,
                               IF col = 1 THEN outcome.val[2] ELSE base64_decode)

\* C1: parse_line rejects a line whose first byte is a space or a tab with
\* LeadingWhitespace, and otherwise reads the fields in the order type, path,
\* mode, owner, group, age, argument: the error it returns is that of the
\* leftmost field that fails, the fields before it having been decoded, and it
\* returns Ok only when no field fails.
C1_LeftmostError ==
    pc = "done" =>
      IF source # <<>> /\ IsInlineWhitespace(source[1])
      THEN result = Some(Err(<<"LeadingWhitespace">>)) /\ line = <<>>
      ELSE LET first == FirstFailure(FromSlice(source), 1, FALSE)
           IN  IF first = None THEN result[1].ok
               ELSE /\ result = Some(Err(first[1][2]))
                    /\ Len(line) = IF first[1][1] = 7 THEN 6 ELSE first[1][1] - 1

\* C1: the error of the owner was returned, three fields decoded before it,
\* though a field after it fails as well.
C1_Witness ==
    /\ pc = "done"
    /\ result = Some(Err(<<"InvalidUsername">>))
    /\ Len(line) = 3
    /\ FirstFailure(TakeInlineWhitespace(input), 5, FALSE) # None

\* The bytes of the line in the span of a field.
Raw(spanned) == SubSeq(source, spanned.characters[1] + 1, spanned.characters[2])

\* The line ends after its path field but for spaces and tabs, the type and the
\* path having been decoded.
EndsAfterPath ==
    /\ Len(line) >= 2
    /\ \A i \in (line[2].characters[2] + 1)..Len(source) : IsInlineWhitespace(source[i])

TrailingFields == {"mode", "owner", "group", "age", "argument"}

\* C2: for every line of length n that ends after a valid type field and a
\* valid path field, spaces and tabs aside, parse_line succeeds with mode,
\* owner, group, age and argument all None, each with the zero-width span
\* [n, n) at the end of the line.
C2_OmittedFields ==
    pc = "done" /\ EndsAfterPath =>
      /\ result[1].ok
      /\ \A f \in TrailingFields :
            result[1].val[f] = Spanned(None, Len(source), Len(source))

\* C2: a line with whitespace after its path was parsed.
C2_Witness ==
    /\ pc = "done"
    /\ EndsAfterPath
    /\ line[2].characters[2] < Len(source)
    /\ result[1].ok
    /\ result[1].val.path.data.prefix # <<>>

\* What each field decodes to when it is absent from the line.
WhenAbsent ==
    [mode |-> ModeField(None).val, owner |-> UserField(None).val,
     group |-> UserField(None).val, age |-> AgeField(None).val]

\* C3 as claimed: for each of the mode, owner, group and age fields, parse_line
\* yields the same decoded value for the field written as `-` as for the field
\* absent from the line.
C3_DashIsAbsent ==
    pc = "done" /\ result[1].ok =>
      \A f \in {"mode", "owner", "group", "age"} :
          Raw(result[1].val[f]) = Dash => result[1].val[f].data = WhenAbsent[f]

\* C3, amended: for each of the mode, owner and group fields, parse_line yields
\* the same decoded value (None) for the field written as `-` as for the field
\* absent from the line; for the age field, `-` yields Some(CleanupAge::EMPTY),
\* while an absent age yields None.
C3_DashButAge ==
    pc = "done" /\ result[1].ok =>
      /\ \A f \in {"mode", "owner", "group"} :
            Raw(result[1].val[f]) = Dash =>
                result[1].val[f].data = WhenAbsent[f] /\ WhenAbsent[f] = None
      /\ Raw(result[1].val.age) = Dash =>
            result[1].val.age.data = Some(EMPTY) /\ WhenAbsent.age = None

\* C3: a line with `-` for its mode, owner, group and age was parsed.
C3_Witness ==
    /\ pc = "done"
    /\ result[1].ok
    /\ \A f \in {"mode", "owner", "group", "age"} : Raw(result[1].val[f]) = Dash

\* C4: an argument that is exactly `-` means "not specified": parse_line
\* returns argument = None for it, as when the argument is absent.
C4_DashArgument ==
    pc = "done" /\ result[1].ok /\ Raw(result[1].val.argument) = Dash =>
        result[1].val.argument.data = None

---------------------------------------------------------------------------
(* Claims about the argument, under SpecArgument *)

\* The offset of the first byte of s at or after offset from that is neither a
\* space nor a tab, or the length of s.
AfterWhitespace(s, from) ==
    CHOOSE i \in from..Len(s) :
        /\ \A j \in (from + 1)..i : IsInlineWhitespace(s[j])
        /\ i = Len(s) \/ ~IsInlineWhitespace(s[i + 1])

\* C5: when the type field has no `~`, the argument parse_line returns is the
\* raw bytes of the line that remain after the whitespace following the age
\* field, up to the end of the line, taken literally, with a span that ends at
\* the length of the line; it is None exactly when no bytes remain.
C5_ArgumentLiteral ==
    pc = "done" /\ Len(line) = 6 /\ ~line[1].data[2] =>
      LET n == Len(source)
          from == AfterWhitespace(source, line[6].characters[2])
      IN  /\ result[1].ok
          /\ result[1].val.argument =
                Spanned(IF from = n THEN None ELSE Some(SubSeq(source, from + 1, n)),
                        from, n)

\* C5: an argument with a quote, a space and a backslash was returned.
C5_Witness ==
    /\ pc = "done"
    /\ result[1].ok
    /\ ~line[1].data[2]
    /\ result[1].val.argument.data # None
    /\ \A b \in {B["\""], B[" "], B["\\"]} : Has(result[1].val.argument.data[1], b)

---------------------------------------------------------------------------
(* More claims about take_field, under SpecField *)

\* The step makes take_field return the field read so far, its span ending
\* n bytes after the cursor, and leaves the rest of the line as the input.
EndsField(n) ==
    /\ token' = Ok(Spanned(Some(field), input.start, input.start + cursor + n))
    /\ input' = [bytes |-> SubSeqFrom(input.bytes, cursor + n),
                 start |-> input.start + cursor + n, end |-> input.end]
    /\ pc' = "field_returned"

\* What the claim says of take_field before its loop.
QuotingAtStart ==
    pc = "take_field" =>
        IF input.bytes = <<>>
        THEN token' = Ok(Spanned(None, input.start, input.end)) /\ pc' = "field_returned"
        ELSE /\ pc' = "loop"
             /\ field' = <<>>
             /\ IF IsQuote(input.bytes[1])
                THEN quotation' = Some(input.bytes[1]) /\ cursor' = 1
                ELSE quotation' = None /\ cursor' = 0

\* What the claim says of a byte of the field that no escape has consumed.
QuotingInLoop ==
    pc = "loop" /\ Peek(input, cursor) # Some(B["\\"]) =>
        LET ch == Peek(input, cursor)
            next == Peek(input, cursor + 1)
        IN  IF quotation # None
            THEN IF ch = None THEN FailsWith(<<"UnfinishedQuote">>)
                 ELSE IF ch = quotation
                 THEN IF next = None \/ IsInlineWhitespace(next[1])
                      THEN EndsField(1)
                      ELSE FailsWith(<<"JunkAfterQuotes">>)
                 ELSE Appends(ch[1], 1)
            ELSE IF ch = None \/ IsInlineWhitespace(ch[1]) THEN EndsField(0)
                 ELSE IF IsQuote(ch[1]) THEN FailsWith(<<"QuoteInUnquotedField">>)
                 ELSE Appends(ch[1], 1)

\* C11: a field whose first byte is a quote ends at the first unescaped
\* occurrence of that quote; inside it spaces, tabs and the other quote are
\* content; the byte after the closing quote must be a space, a tab or the end
\* of the line, else JunkAfterQuotes; the end of the line before the closing
\* quote is UnfinishedQuote. A field that starts with any other byte ends at
\* the first space, tab or end of line, and an unescaped quote in it is
\* QuoteInUnquotedField. take_field returns None only when the span is empty,
\* so an empty quoted field returns Some(empty).
C11_Quoting ==
    /\ [][QuotingAtStart /\ QuotingInLoop]_vars
    /\ [](pc = "field_returned" /\ token.ok =>
            (token.val.data = None <=> source = <<>>))

\* C11: a field in single quotes with a space and a double quote inside was
\* returned.
C11_Witness ==
    /\ pc = "field_returned"
    /\ token.ok
    /\ quotation = Some(B["'"])
    /\ Has(token.val.data[1], B[" "])
    /\ Has(token.val.data[1], B["\""])

---------------------------------------------------------------------------
(* parse_line up to its path field, on every short path *)

MaxPathLen == 4

\* The bytes parse_path tells apart: the slash, the percent sign, NUL, a
\* designator that is not absolute, one that is, and a letter that is none.
PathAlphabet == {B["/"], B["%"], NUL, B["a"], B["h"], B["z"]}

\* The bytes tried as the designator of a leading specifier.
LeadingDesignators ==
    {B[c] : c \in {"a", "A", "b", "B", "C", "g", "G", "h", "H", "l", "L", "m", "M",
                   "o", "S", "t", "T", "u", "U", "v", "V", "w", "W", "%", "z", "/"}}

\* A type field, a space, and the path: any short byte string, or a specifier
\* with at most one byte after it.
PathInputs ==
    {<<B["f"], B[" "]>> \o path :
        path \in SeqsUpTo(PathAlphabet, MaxPathLen)
                  \cup {<<B["%"], d>> \o rest : d \in LeadingDesignators,
                                               rest \in SeqsUpTo(PathAlphabet, 1)}}

InitPath ==
    /\ source \in PathInputs
    /\ input = FromSlice(source)
    /\ cursor = 0
    /\ quotation = None
    /\ field = <<>>
    /\ token = None
    /\ column = 0
    /\ pc = "parse_line"
    /\ line = <<>>
    /\ result = None
    /\ NoCaller

NextPath ==
    \/ ParseLineStart
    \/ TakeFieldBegin
    \/ TakeFieldLoop
    \/ DecodeType
    \/ SkipInlineWhitespace
    \/ DecodePath

SpecPath == InitPath /\ [][NextPath]_vars

---------------------------------------------------------------------------
(* Claims about parse_path and parse_specifiers, under SpecPath *)

\* parse_line has decoded the path field, or returned its error.
PathDecoded == column = 2 /\ pc \in {"whitespace", "done"} /\ token.ok

\* The bytes of the path field, and what parse_path returned for them.
PathBytes == UnwrapOrDefault(token.val.data)
PathResult == IF pc = "done" THEN result[1] ELSE Ok(line[2].data)

\* The designators, and those of the specifiers that stand for an absolute
\* path.
Designators ==
    {B[c] : c \in {"a", "A", "b", "B", "C", "g", "G", "h", "H", "l", "L", "m", "M",
                   "o", "S", "t", "T", "u", "U", "v", "V", "w", "W", "%"}}
AbsoluteDesignators == {B[c] : c \in {"C", "h", "L", "S", "t", "T", "V"}}

RECURSIVE FirstDefect(_, _)
\* The first specifier of s from index i on that is not well formed: the
\* error it stands for, or None.
FirstDefect(s, i) ==
    IF i > Len(s) THEN None
    ELSE IF s[i] # B["%"] THEN FirstDefect(s, i + 1)
    ELSE IF i = Len(s) THEN Some(<<"IncompleteSpecifier">>)
    ELSE IF s[i + 1] \notin Designators THEN Some(<<"InvalidSpecifier", s[i + 1]>>)
    ELSE FirstDefect(s, i + 2)

WellFormed(s) == FirstDefect(s, 1) = None

\* C12: a path with well-formed specifiers and no NUL is accepted if and only
\* if its literal prefix starts with a slash, or the prefix is empty and the
\* first specifier has one of the designators C, h, L, S, t, T, V; an empty
\* path fails with EmptyPath and every other path with NonabsolutePath.
C12_Absolute ==
    PathDecoded /\ WellFormed(PathBytes) /\ ~Has(PathBytes, NUL) =>
      IF PathBytes = <<>> THEN PathResult = Err(<<"EmptyPath">>)
      ELSE IF \/ PathBytes[1] = B["/"]
              \/ PathBytes[1] = B["%"] /\ PathBytes[2] \in AbsoluteDesignators
      THEN /\ PathResult.ok
           /\ PathBytes[1] = B["%"] =>
                 PathResult.val.segments[1][1] \in
                   {"CacheDir", "UserHome", "LogDir", "StateDir", "RuntimeDir",
                    "TempDir", "PersistentTempDir"}
      ELSE PathResult = Err(<<"NonabsolutePath">>)

\* C12: a path that begins with a specifier was accepted.
C12_Witness ==
    /\ PathDecoded
    /\ PathResult.ok
    /\ PathResult.val.prefix = <<>>
    /\ Len(PathResult.val.segments) = 2

\* C13: no SpecifierString parse_path accepts has a NUL in its prefix or in a
\* literal that follows a specifier, and every path with well-formed
\* specifiers and a NUL in one of those literals is rejected with NullInPath,
\* absolute or not.
C13_NoNul ==
    PathDecoded =>
      /\ PathResult.ok =>
            /\ ~Has(PathResult.val.prefix, NUL)
            /\ \A k \in 1..Len(PathResult.val.segments) :
                  ~Has(PathResult.val.segments[k][2], NUL)
      /\ WellFormed(PathBytes) /\ Has(PathBytes, NUL) => PathResult = Err(<<"NullInPath">>)

\* C13: an absolute path with a NUL after a specifier was rejected.
C13_Witness ==
    /\ PathDecoded
    /\ PathResult = Err(<<"NullInPath">>)
    /\ PathBytes[1] = B["/"]
    /\ PathBytes[2] = B["%"]
    /\ PathBytes[4] = NUL

RECURSIVE LaidOut(_, _, _, _)
\* The segments from the k-th on lie in s from index i on, each a percent
\* sign, one designator and a literal without a percent sign, up to the end.
LaidOut(s, i, segments, k) ==
    IF k > Len(segments) THEN i = Len(s) + 1
    ELSE LET literal == segments[k][2]
         IN  /\ i + 1 + Len(literal) <= Len(s)
             /\ s[i] = B["%"]
             /\ s[i + 1] = B["%"] <=> segments[k][1] = "PercentSign"
             /\ literal = SubSeq(s, i + 2, i + 1 + Len(literal))
             /\ ~Has(literal, B["%"])
             /\ LaidOut(s, i + 2 + Len(literal), segments, k + 1)

\* C14: parse_specifiers splits a path so that each specifier takes two bytes
\* of it, %% being one PercentSign: on success the prefix and the literals
\* have no percent sign, lie in the order of the source, and the length of the
\* input is that of the prefix plus, for each segment, two and the length of
\* its literal; a percent sign that is the last byte fails with
\* IncompleteSpecifier, and one followed by a byte b that is no designator with
\* InvalidSpecifier(b). parse_path returns that error, and that
\* SpecifierString when it accepts the path.
C14_Specifiers ==
    PathDecoded =>
      LET string == ParseSpecifiers(PathBytes)
          defect == FirstDefect(PathBytes, 1)
      IN  IF defect # None
          THEN string = Err(defect[1]) /\ PathResult = string
          ELSE /\ string.ok
               /\ ~Has(string.val.prefix, B["%"])
               /\ string.val.prefix = Prefix(PathBytes, Len(string.val.prefix))
               /\ LaidOut(PathBytes, Len(string.val.prefix) + 1, string.val.segments, 1)
               /\ PathResult.ok => PathResult.val = string.val

\* C14: a path with a prefix, %% and a second specifier with a literal was
\* accepted.
C14_Witness ==
    /\ PathDecoded
    /\ PathResult.ok
    /\ PathResult.val.prefix # <<>>
    /\ \E k \in 1..Len(PathResult.val.segments) :
          PathResult.val.segments[k][1] = "PercentSign"
    /\ \E k \in 1..Len(PathResult.val.segments) :
          PathResult.val.segments[k][2] # <<>>

---------------------------------------------------------------------------
(* parse_line up to its mode field, on every short mode *)

MaxModeLen == 5

\* The bytes parse_mode tells apart: its two prefixes, an octal digit, a digit
\* that is not octal, the signs and a byte that is not UTF-8.
ModeAlphabet == {B[":"], B["~"], B["7"], B["8"], B["+"], B["-"], 255}

\* A type field, a path, and the mode.
ModeInputs ==
    {Str(<<"f", " ", "/", "a", " ">>) \o mode : mode \in SeqsUpTo(ModeAlphabet, MaxModeLen)}

InitMode ==
    /\ source \in ModeInputs
    /\ input = FromSlice(source)
    /\ cursor = 0
    /\ quotation = None
    /\ field = <<>>
    /\ token = None
    /\ column = 0
    /\ pc = "parse_line"
    /\ line = <<>>
    /\ result = None
    /\ NoCaller

NextMode ==
    \/ ParseLineStart
    \/ TakeFieldBegin
    \/ TakeFieldLoop
    \/ DecodeType
    \/ DecodePath
    \/ SkipInlineWhitespace
    \/ DecodeMode

SpecMode == InitMode /\ [][NextMode]_vars

---------------------------------------------------------------------------
(* Claims about parse_mode, under SpecMode *)

\* parse_line has given the mode field to parse_mode: the field is there and is
\* not the sentinel.
ModeParsed ==
    /\ column = 3
    /\ pc \in {"whitespace", "done"}
    /\ token.ok
    /\ token.val.data \notin {None, Some(Dash)}

ModeBytes == token.val.data[1]
ModeResult == IF pc = "done" THEN result[1] ELSE Ok(line[3].data[1])

\* The mode without its optional prefix.
ModeDigits ==
    IF ModeBytes # <<>> /\ ModeBytes[1] \in {B[":"], B["~"]} THEN Tail(ModeBytes)
    ELSE ModeBytes

RECURSIVE OctalValue(_)
\* The base-8 value of octal digits.
OctalValue(digits) ==
    IF digits = <<>> THEN 0
    ELSE 8 * OctalValue(Prefix(digits, Len(digits) - 1)) + (digits[Len(digits)] - B["0"])

\* C15: parse_mode returns Ok exactly when, one optional leading `:` or `~`
\* removed, the bytes are three or four octal digits; the value is their
\* base-8 value and mode_behavior is KeepExisting for `:`, Masked for `~` and
\* Default otherwise; every other input yields InvalidMode.
C15_OctalDigits ==
    ModeParsed =>
      IF /\ Len(ModeDigits) \in {3, 4}
         /\ \A i \in 1..Len(ModeDigits) : ModeDigits[i] \in B["0"]..B["7"]
      THEN ModeResult =
             Ok([value |-> OctalValue(ModeDigits),
                 mode_behavior |-> IF ModeBytes[1] = B[":"] THEN "KeepExisting"
                                   ELSE IF ModeBytes[1] = B["~"] THEN "Masked"
                                   ELSE "Default"])
      ELSE ModeResult = Err(<<"InvalidMode">>)

---------------------------------------------------------------------------
(* parse_line up to its group field, on every short owner and group *)

MaxUserLen == 3

\* The bytes parse_user tells apart: digits, the signs, a letter, a byte that
\* is never UTF-8 and the two bytes of a character.
UserAlphabet == {B["0"], B["5"], B["+"], B["-"], B["r"], 255, 195, 169}

\* Users around the largest 32-bit integer, and the empty quoted field.
LongUsers ==
    {Str(<<"4", "2", "9", "4", "9", "6", "7", "2", "9", "5">>),
     Str(<<"4", "2", "9", "4", "9", "6", "7", "2", "9", "6">>),
     Str(<<"0", "4", "2", "9", "4", "9", "6", "7", "2", "9", "5">>),
     Str(<<"\"", "\"">>)}

\* A type field, a path, no mode, and the user as owner and as group.
UserInputs ==
    {Str(<<"f", " ", "/", "a", " ", "-", " ">>) \o user \o <<B[" "]>> \o user :
        user \in (SeqsUpTo(UserAlphabet, MaxUserLen) \ {<<>>}) \cup LongUsers}

InitUser ==
    /\ source \in UserInputs
    /\ input = FromSlice(source)
    /\ cursor = 0
    /\ quotation = None
    /\ field = <<>>
    /\ token = None
    /\ column = 0
    /\ pc = "parse_line"
    /\ line = <<>>
    /\ result = None
    /\ NoCaller

NextUser ==
    \/ ParseLineStart
    \/ TakeFieldBegin
    \/ TakeFieldLoop
    \/ DecodeType
    \/ DecodePath
    \/ DecodeMode
    \/ SkipInlineWhitespace
    \/ DecodeOwner
    \/ DecodeGroup

SpecUser == InitUser /\ [][NextUser]_vars

---------------------------------------------------------------------------
(* Claims about parse_user, under SpecUser *)

\* parse_line has given the owner or the group field to parse_user.
UserParsed ==
    /\ column \in {4, 5}
    /\ pc \in {"whitespace", "done"}
    /\ token.ok
    /\ token.val.data \notin {None, Some(Dash)}

UserBytes == token.val.data[1]
UserResult == IF pc = "done" THEN result[1] ELSE Ok(line[column].data[1])

\* The digits, as numbers, of a string of decimal digits.
DigitsOf(bytes) == [i \in 1..Len(bytes) |-> bytes[i] - B["0"]]

\* C16: parse_user fails with InvalidUsername exactly when the bytes of the
\* field are not UTF-8; otherwise it returns Id(n) exactly when the field is
\* the decimal digits of an unsigned integer n that fits 32 bits, and Name(s),
\* s being the whole field, for every other field.
C16_IdOrName ==
    UserParsed =>
      IF ~IsUtf8(UserBytes) THEN UserResult = Err(<<"InvalidUsername">>)
      ELSE IF /\ UserBytes # <<>>
              /\ \A i \in 1..Len(UserBytes) : IsAsciiDigit(UserBytes[i])
              /\ NatLeq(Canonical(DigitsOf(UserBytes)), U32Max)
      THEN UserResult = Ok(<<"Id", Canonical(DigitsOf(UserBytes))>>)
      ELSE UserResult = Ok(<<"Name", UserBytes>>)

---------------------------------------------------------------------------
(* parse_line on every short age field *)

MaxAgeLen == 4

\* The bytes parse_cleanup_age tells apart: the separator, the prefix of the
\* flags, flag letters (`m` is a unit too), a digit and a unit that is no flag.
AgeAlphabet == {B[":"], B["~"], B["a"], B["C"], B["m"], B["1"], B["s"]}

\* Each flag letter alone, and all of them at once.
FlagAges ==
    {<<l>> \o Str(<<":", "1">>) :
        l \in {B["a"], B["A"], B["b"], B["B"], B["c"], B["C"], B["m"], B["M"]}}
      \cup {Str(<<"~", "M", "m", "C", "c", "B", "b", "A", "a", ":", "1", "s">>)}

\* A type field, a path, no mode, no owner, no group, and the age.
AgeInputs ==
    {Str(<<"f", " ", "/", " ", "-", " ", "-", " ", "-", " ">>) \o age :
        age \in SeqsUpTo(AgeAlphabet, MaxAgeLen) \cup FlagAges}

InitAge ==
    /\ source \in AgeInputs
    /\ input = FromSlice(source)
    /\ cursor = 0
    /\ quotation = None
    /\ field = <<>>
    /\ token = None
    /\ column = 0
    /\ pc = "parse_line"
    /\ line = <<>>
    /\ result = None
    /\ NoCaller

SpecAge == InitAge /\ [][Next]_vars

---------------------------------------------------------------------------
(* Claims about parse_cleanup_age, under SpecAge *)

\* parse_line has given the age field to parse_cleanup_age.
AgeParsed ==
    /\ column = 6
    /\ pc \in {"whitespace", "argument", "done"}
    /\ token.ok
    /\ token.val.data \notin {None, Some(Dash)}

AgeBytes == token.val.data[1]

\* What parse_cleanup_age returned: the age of the line, or the error inside
\* InvalidCleanupAge.
AgeResult ==
    IF pc # "done" THEN Ok(line[6].data[1])
    ELSE IF result[1].ok THEN Ok(result[1].val.age.data[1])
    ELSE Err(result[1].err[2])

\* The parts of the age field around its first colon.
BeforeColon == Prefix(AgeBytes, (CHOOSE i \in 1..Len(AgeBytes) :
                  AgeBytes[i] = B[":"] /\ \A j \in 1..(i - 1) : AgeBytes[j] # B[":"]) - 1)
AfterColon == SubSeqFrom(AgeBytes, Len(BeforeColon) + 1)

\* The flags or the error of the flag list, then the duration or its error.
FlagsThenDuration(flags, duration) ==
    IF ~flags.ok THEN AgeResult = flags
    ELSE IF ~duration.ok THEN AgeResult = duration
    ELSE AgeResult = Ok([flags.val EXCEPT !.age = duration.val])

\* C17: parse_cleanup_age splits the age field on `:`. Without a `:` the whole
\* field is the duration and the result has the flags of CleanupAge::EMPTY
\* with the parsed duration as age; with one `:` the flag list is what is
\* before it and the duration what is after it; with more than one the result
\* is Malformed with the whole field, whatever the parts are.
C17_Split ==
    AgeParsed =>
      CASE ~Has(AgeBytes, B[":"]) ->
             FlagsThenDuration(
               Ok([second_level |-> FALSE,
                   consider_atime |-> TRUE, consider_atime_dir |-> TRUE,
                   consider_btime |-> TRUE, consider_btime_dir |-> TRUE,
                   consider_ctime |-> TRUE, consider_ctime_dir |-> FALSE,
                   consider_mtime |-> TRUE, consider_mtime_dir |-> TRUE,
                   age |-> Duration(<<>>, 0)]),
               ParseDuration(AgeBytes))
        [] Has(AgeBytes, B[":"]) /\ ~Has(AfterColon, B[":"]) ->
             FlagsThenDuration(ParseCleanupAgeBy(BeforeColon), ParseDuration(AfterColon))
        [] OTHER -> AgeResult = Err(<<"Malformed", AgeBytes>>)

\* More than one colon around a flag list and a duration that are both fine.
C17_Witness ==
    /\ AgeParsed
    /\ pc = "done"
    /\ AgeBytes = Str(<<"a", ":", "1", ":">>)
    /\ result = Some(Err(<<"InvalidCleanupAge", <<"Malformed", AgeBytes>>>>))

\* The flag list of an age field with one colon, and its letters.
HasFlagList == AgeParsed /\ Has(AgeBytes, B[":"]) /\ ~Has(AfterColon, B[":"])
FlagLetters ==
    IF BeforeColon # <<>> /\ BeforeColon[1] = B["~"] THEN Tail(BeforeColon) ELSE BeforeColon

\* The consider-flag each letter names.
FlagNames ==
    {<<B["a"], "consider_atime">>, <<B["A"], "consider_atime_dir">>,
     <<B["b"], "consider_btime">>, <<B["B"], "consider_btime_dir">>,
     <<B["c"], "consider_ctime">>, <<B["C"], "consider_ctime_dir">>,
     <<B["m"], "consider_mtime">>, <<B["M"], "consider_mtime_dir">>}

\* The positions of the letters that are no flag or were listed before.
FlagDefects ==
    {i \in 1..Len(FlagLetters) :
        \/ \A n \in FlagNames : n[1] # FlagLetters[i]
        \/ \E j \in 1..(i - 1) : FlagLetters[j] = FlagLetters[i]}

FirstFlagDefect == CHOOSE i \in FlagDefects : \A j \in FlagDefects : i <= j

\* C18: of an age field with a flag list, second_level is true exactly when
\* the list starts with `~`; on success exactly the consider-flags of the
\* listed letters a, A, b, B, c, C, m, M are true; a letter listed twice fails
\* with DuplicateCleanupSpecifier(letter), another byte b with
\* InvalidCleanupSpecifier(b), a list without letters with
\* EmptyCleanupSpecifierList; these errors come before any of the duration.
C18_Flags ==
    HasFlagList =>
      IF FlagLetters = <<>> THEN AgeResult = Err(<<"EmptyCleanupSpecifierList">>)
      ELSE IF FlagDefects # {}
      THEN AgeResult =
             Err(<<(IF \E n \in FlagNames : n[1] = FlagLetters[FirstFlagDefect]
                    THEN "DuplicateCleanupSpecifier" ELSE "InvalidCleanupSpecifier"),
                   FlagLetters[FirstFlagDefect]>>)
      ELSE AgeResult.ok =>
             /\ AgeResult.val.second_level <=> BeforeColon[1] = B["~"]
             /\ \A n \in FlagNames : AgeResult.val[n[2]] <=> Has(FlagLetters, n[1])

\* A flag list with `~` and one letter, and a duration.
C18_Witness ==
    /\ HasFlagList
    /\ BeforeColon = Str(<<"~", "C">>)
    /\ AgeResult.ok
    /\ AgeResult.val.second_level
    /\ AgeResult.val.consider_ctime_dir
    /\ ~AgeResult.val.consider_atime

---------------------------------------------------------------------------
(* parse_line on age fields that are durations of a few parts *)

MaxParts == 3

\* Magnitudes: u64::MAX and the integer after it.
MaxMagnitude == Str(<<"1","8","4","4","6","7","4","4","0","7","3","7","0","9","5","5","1","6","1","5">>)
OverMagnitude == Str(<<"1","8","4","4","6","7","4","4","0","7","3","7","0","9","5","5","1","6","1","6">>)

\* Parts with a unit: small ones, nanoseconds that carry into a second, the
\* largest count of seconds, a product above u64::MAX and a count above it.
DurationParts ==
    {Str(<<"1", "s">>), Str(<<"1", "m">>), Str(<<"2", "y">>), Str(<<"1", "n", "s">>),
     Str(<<"9", "9", "9", "9", "9", "9", "9", "9", "9", "n", "s">>),
     MaxMagnitude \o Str(<<"s">>), MaxMagnitude \o Str(<<"m">>),
     OverMagnitude \o Str(<<"s">>)}

\* Each keyword of the table after a count, the empty keyword after a part
\* too, and a keyword that is not in the table.
KeywordDurations ==
    {Str(<<"7">>) \o u[1] : u \in DurationKeywords}
      \cup {Str(<<"1", "m", "7">>), Str(<<"7", "x">>), Str(<<"s">>),
            MaxMagnitude \o Str(<<"n", "s">>), MaxMagnitude}

\* A type field, a path, no mode, no owner, no group, and the duration as age.
DurationInputs ==
    {Str(<<"f", " ", "/", " ", "-", " ", "-", " ", "-", " ">>) \o duration :
        duration \in {Join(parts, <<>>) : parts \in SeqsUpTo(DurationParts, MaxParts)}
                        \cup KeywordDurations}

InitDuration ==
    /\ source \in DurationInputs
    /\ input = FromSlice(source)
    /\ cursor = 0
    /\ quotation = None
    /\ field = <<>>
    /\ token = None
    /\ column = 0
    /\ pc = "parse_line"
    /\ line = <<>>
    /\ result = None
    /\ NoCaller

SpecDuration == InitDuration /\ [][Next]_vars

---------------------------------------------------------------------------
(* Claims about parse_duration, under SpecDuration *)

\* parse_line has given an age field without a colon to parse_duration.
DurationParsed == AgeParsed /\ ~Has(AgeBytes, B[":"])

\* What parse_duration returned.
DurationResult == IF AgeResult.ok THEN Ok(AgeResult.val.age) ELSE AgeResult

RECURSIVE RunLength(_, _)
\* How many bytes at the start of s are digits (or, for digits = FALSE, are not).
RunLength(s, digits) ==
    IF s # <<>> /\ (IsAsciiDigit(s[1]) <=> digits) THEN 1 + RunLength(Tail(s), digits)
    ELSE 0

RECURSIVE PartsOf(_)
\* The parts of a duration: each a run of digits, the magnitude, and the run of
\* other bytes after it, the unit.
PartsOf(s) ==
    IF s = <<>> THEN <<>>
    ELSE LET nd == RunLength(s, TRUE)
             nu == RunLength(SubSeqFrom(s, nd), FALSE)
         IN  <<[magnitude |-> Prefix(s, nd), unit |-> SubSeq(s, nd + 1, nd + nu)]>>
               \o PartsOf(SubSeqFrom(s, nd + nu))

\* The units of the table: their spellings, whole seconds and nanoseconds.
UnitTable ==
    {<<{Str(<<"n","s","e","c">>), Str(<<"n","s">>)}, 0, 1>>,
     <<{Str(<<"u","s","e","c">>), Str(<<"u","s">>), <<205, 188, B["s"]>>, <<194, 181, B["s"]>>},
       0, 1000>>,
     <<{Str(<<"m","s","e","c">>), Str(<<"m","s">>)}, 0, 1000 * 1000>>,
     <<{Str(<<"s","e","c","o","n","d","s">>), Str(<<"s","e","c","o","n","d">>),
        Str(<<"s","e","c">>), Str(<<"s">>), <<>>}, 1, 0>>,
     <<{Str(<<"m","i","n","u","t","e","s">>), Str(<<"m","i","n","u","t","e">>),
        Str(<<"m","i","n">>), Str(<<"m">>)}, 60, 0>>,
     <<{Str(<<"h","o","u","r","s">>), Str(<<"h","o","u","r">>), Str(<<"h","r">>),
        Str(<<"h">>)}, 60 * 60, 0>>,
     <<{Str(<<"d","a","y","s">>), Str(<<"d","a","y">>), Str(<<"d">>)}, 24 * 60 * 60, 0>>,
     <<{Str(<<"w","e","e","k","s">>), Str(<<"w","e","e","k">>), Str(<<"w">>)},
       7 * 24 * 60 * 60, 0>>,
     <<{Str(<<"m","o","n","t","h","s">>), Str(<<"m","o","n","t","h">>), Str(<<"M">>)},
       30 * 24 * 60 * 60 + 10 * 60 * 60 + 30 * 60, 0>>,
     <<{Str(<<"y","e","a","r","s">>), Str(<<"y","e","a","r">>), Str(<<"y">>)},
       365 * 24 * 60 * 60 + 6 * 60 * 60, 0>>}

KnownUnit(unit) == \E u \in UnitTable : unit \in u[1]
UnitOf(unit) == CHOOSE u \in UnitTable : unit \in u[1]

\* The integer a magnitude writes, as a digit sequence.
Magnitude(part) == Canonical(DigitsOf(part.magnitude))

\* Every part has a magnitude and a unit of the table.
WellFormedParts(parts) ==
    \A i \in 1..Len(parts) : parts[i].magnitude # <<>> /\ KnownUnit(parts[i].unit)

\* Every magnitude fits 64 bits.
MagnitudesFit(parts) == \A i \in 1..Len(parts) : NatLeq(Magnitude(parts[i]), U64Max)

\* The bytes of parts in the order p.
Reordered(parts, p) ==
    Join([i \in 1..Len(parts) |-> parts[p[i]].magnitude \o parts[p[i]].unit], <<>>)

\* The orders of n parts.
PartOrders(n) == {p \in [1..n -> 1..n] : \A i, j \in 1..n : i # j => p[i] # p[j]}

\* The same Duration, or a failure of the same kind, on both sides.
SameOutcome(a, b) ==
    \/ a.ok /\ b.ok /\ a.val = b.val
    \/ ~a.ok /\ ~b.ok /\ a.err[1] = b.err[1]

\* The parts of the duration parsed, in every order, give what it gave.
SameInEveryOrder(parts) ==
    \A p \in PartOrders(Len(parts)) :
        SameOutcome(ParseDuration(Reordered(parts, p)), DurationResult)

\* C19 as claimed: for any list of well-formed parts, integer then unit, with
\* non-empty units of the table, parse_duration of their concatenation gives
\* the same outcome in every order of the parts: the same Duration, or an
\* OverflowedDuration failure in every order.
C19_Commutative ==
    (/\ DurationParsed
     /\ WellFormedParts(PartsOf(AgeBytes))
     /\ \A i \in 1..Len(PartsOf(AgeBytes)) : PartsOf(AgeBytes)[i].unit # <<>>)
      => SameInEveryOrder(PartsOf(AgeBytes))

\* C19: for any list of well-formed parts with non-empty units of the table
\* whose integers fit 64 bits, parse_duration of their concatenation gives the
\* same outcome in every order of the parts: the same Duration, or an
\* OverflowedDuration failure in every order.
C19_CommutativeWhenFitting ==
    (/\ DurationParsed
     /\ WellFormedParts(PartsOf(AgeBytes))
     /\ MagnitudesFit(PartsOf(AgeBytes))
     /\ \A i \in 1..Len(PartsOf(AgeBytes)) : PartsOf(AgeBytes)[i].unit # <<>>)
      => /\ SameInEveryOrder(PartsOf(AgeBytes))
         /\ DurationResult.ok \/ DurationResult.err[1] = "OverflowedDuration"

\* Three different parts, the nanoseconds of two carrying into a second.
C19_Witness ==
    /\ DurationParsed
    /\ pc = "done"
    /\ AgeBytes = Str(<<"1", "n", "s", "1", "m", "9", "9", "9", "9", "9", "9", "9", "9", "9", "n", "s">>)
    /\ DurationResult = Ok(Duration(<<6, 1>>, 0))

RECURSIVE ExactSeconds(_)
\* The sum over the parts of magnitude times the whole seconds of the unit.
ExactSeconds(parts) ==
    IF parts = <<>> THEN <<>>
    ELSE NatAdd(NatMul(Magnitude(parts[1]), UnitOf(parts[1].unit)[2]),
                ExactSeconds(Tail(parts)))

RECURSIVE ExactNanos(_)
\* The sum over the parts of magnitude times the nanoseconds of the unit.
ExactNanos(parts) ==
    IF parts = <<>> THEN <<>>
    ELSE NatAdd(NatMul(Magnitude(parts[1]), UnitOf(parts[1].unit)[3]),
                ExactNanos(Tail(parts)))

\* The exact sum of the parts as whole seconds and nanoseconds below 10^9.
ExactDuration(parts) ==
    Duration(NatAdd(ExactSeconds(parts), NatDivBillion(ExactNanos(parts))),
             NatModBillion(ExactNanos(parts)))

\* C20: parse_duration never wraps or saturates. Whenever it returns Ok(d), d
\* is the exact sum over the parts of magnitude times unit (an empty unit is
\* seconds); whenever every magnitude fits 64 bits and a product or a running
\* sum is above the unsigned 64-bit range of whole seconds, it returns
\* OverflowedDuration.
C20_Exact ==
    DurationParsed =>
      /\ DurationResult.ok =>
            /\ WellFormedParts(PartsOf(AgeBytes))
            /\ DurationResult.val = ExactDuration(PartsOf(AgeBytes))
      /\ (/\ WellFormedParts(PartsOf(AgeBytes))
          /\ MagnitudesFit(PartsOf(AgeBytes))
          /\ ~NatLeq(ExactDuration(PartsOf(AgeBytes)).secs, U64Max))
            => ~DurationResult.ok /\ DurationResult.err[1] = "OverflowedDuration"

\* The largest count of seconds and nanoseconds that carry into one more.
C20_Witness ==
    /\ DurationParsed
    /\ pc = "done"
    /\ AgeBytes = MaxMagnitude \o Str(<<"s", "9", "9", "9", "9", "9", "9", "9", "9", "9", "n", "s", "1", "n", "s">>)
    /\ DurationResult = Err(<<"OverflowedDuration", AgeBytes>>)

---------------------------------------------------------------------------
(* The Lines iterator on every short buffer *)

MaxBufferLen == 5

\* A newline and two other bytes.
BufferAlphabet == {LF, B["a"], B["#"]}

InitLines ==
    /\ source \in SeqsUpTo(BufferAlphabet, MaxBufferLen)
    /\ lines = FromSlice(source)
    /\ yielded = <<>>
    /\ pc = "lines_next"
    /\ files = <<>>
    /\ config = <<>>
    /\ input = FromSlice(<<>>)
    /\ cursor = 0
    /\ quotation = None
    /\ field = <<>>
    /\ token = None
    /\ column = 0
    /\ line = <<>>
    /\ result = None

NextLines == LinesNext \/ ForLine

SpecLines == InitLines /\ [][NextLines]_vars

\* The caller goes on asking for lines.
FairLines == SpecLines /\ WF_vars(NextLines)

---------------------------------------------------------------------------
(* Claims about Lines, under FairLines *)

\* The bytes of the spans yielded so far, a newline between them.
YieldedBytes == Join([i \in 1..Len(yielded) |-> yielded[i].bytes], <<LF>>)

\* The lines yielded so far are the lines the buffer begins with: no newline in
\* a span, each span at the offsets of its bytes, each after the one before it
\* and a newline.
YieldedInOrder ==
    /\ \A i \in 1..Len(yielded) :
          /\ ~Has(yielded[i].bytes, LF)
          /\ yielded[i].start <= yielded[i].end /\ yielded[i].end <= Len(source)
          /\ yielded[i].bytes = SubSeq(source, yielded[i].start + 1, yielded[i].end)
          /\ yielded[i].start = IF i = 1 THEN 0 ELSE yielded[i - 1].end + 1
    /\ YieldedBytes = Prefix(source, Len(YieldedBytes))

\* Once next returned None the lines yielded are the whole buffer, but for one
\* newline at its end.
YieldedAll ==
    pc = "lines_none" =>
      /\ source = <<>> => yielded = <<>>
      /\ source # <<>> /\ source[Len(source)] = LF
            => YieldedBytes = Prefix(source, Len(source) - 1)
      /\ source # <<>> /\ source[Len(source)] # LF => YieldedBytes = source

\* C21: for any buffer the Lines iterator ends after finitely many calls of
\* next and yields the lines between the newlines in order: no yielded span
\* holds a newline, the spans joined by newlines are the buffer but for at most
\* one newline at its end, the char_range of each span is the offsets of its
\* bytes in the buffer, a buffer that ends in a newline yields no empty last
\* line for it, and an empty buffer yields no line.
C21_Lines == [](YieldedInOrder /\ YieldedAll) /\ <>(pc = "lines_none")

\* Two lines, the second one empty, of a buffer that ends in two newlines.
C21_Witness ==
    /\ pc = "lines_none"
    /\ source = <<B["a"], LF, LF>>
    /\ yielded = <<[bytes |-> <<B["a"]>>, start |-> 0, end |-> 1],
                   [bytes |-> <<>>, start |-> 2, end |-> 2]>>

---------------------------------------------------------------------------
(* parsed_config on files of a few lines *)

MaxLines == 3

\* Lines parse_line accepts: a type and a path; every field, the path quoted,
\* and an argument; tabs, a specifier, a prefixed mode, an owner and a group.
ValidLines ==
    {Str(<<"f", " ", "/", "a">>),
     Str(<<"d", " ", "\"", "/", "b", " ", "c", "\"", " ", "7", "5", "5", " ", "-", " ", "-",
           " ", "1", "d", " ", " ", "x">>),
     <<B["w"], TAB, B["%"], B["h"], TAB, B["~"], B["6"], B["4"], B["4"], B[" "], B["0"],
       B[" "], B["r"]>>}

\* Lines parse_line rejects: no path; a quote that is not closed.
MalformedLines == {Str(<<"f">>), Str(<<"f", " ", "'", "/">>)}

\* Lines parsed_config skips: a comment and the empty line.
SkippedLines == {Str(<<"#", "c">>), <<>>}

\* Files of at most MaxLines lines, with or without a newline at the end.
ConfigFiles ==
    {Join(ls, <<LF>>) \o end :
        ls \in SeqsUpTo(ValidLines \cup MalformedLines \cup SkippedLines, MaxLines),
        end \in {<<>>, <<LF>>}}

InitConfig ==
    /\ \/ files \in {<<>>} \cup {<<f>> : f \in ConfigFiles}
       \/ \E f \in ConfigFiles : Len(f) <= 2 /\ files = <<f, Str(<<"f", " ", "/", "a">>)>>
    /\ pc = "parsed_config"
    /\ config = <<>>
    /\ source = <<>>
    /\ lines = None
    /\ yielded = <<>>
    /\ input = FromSlice(<<>>)
    /\ cursor = 0
    /\ quotation = None
    /\ field = <<>>
    /\ token = None
    /\ column = 0
    /\ line = <<>>
    /\ result = None

NextConfig ==
    \/ ConfigNextFile
    \/ LinesNext
    \/ ConfigLine
    \/ ParseLineStart
    \/ TakeFieldBegin
    \/ TakeFieldLoop
    \/ DecodeType
    \/ DecodePath
    \/ DecodeMode
    \/ DecodeOwner
    \/ DecodeGroup
    \/ DecodeAge
    \/ SkipInlineWhitespace
    \/ ParseLineArgument
    \/ ConfigPush

SpecConfig == InitConfig /\ [][NextConfig]_vars

---------------------------------------------------------------------------
(* Claims about parsed_config, under SpecConfig *)

RECURSIVE SplitAtNewlines(_)
\* The byte strings between the newlines of bytes.
SplitAtNewlines(bytes) ==
    IF ~Has(bytes, LF) THEN <<bytes>>
    ELSE LET n == CHOOSE i \in 1..Len(bytes) :
                    bytes[i] = LF /\ \A j \in 1..(i - 1) : bytes[j] # LF
         IN  <<Prefix(bytes, n - 1)>> \o SplitAtNewlines(SubSeqFrom(bytes, n))

\* A line parse_line accepts is among those parsed_config has not read yet.
ValidLineLeft ==
    \/ lines # None /\ \E l \in ValidLines : Has(SplitAtNewlines(lines.bytes), l)
    \/ \E i \in 1..Len(files) : \E l \in ValidLines : Has(SplitAtNewlines(files[i]), l)

\* C22: a malformed line does not prevent the parsing of the lines after it:
\* when parse_line returns an error for a line of a configuration file,
\* parsed_config still parses the lines after it, and the valid ones are in
\* the configuration it returns. parsed_config does not stop, then, while a
\* valid line is left to read.
C22_LaterLinesParsed == pc \in {"returned", "todo"} => ~ValidLineLeft

---------------------------------------------------------------------------
(* A claim about Specifier::parse, under SpecPath *)

\* The designator the Specifier enum documents for each variant.
Documented ==
    {<<"a", "Architecture">>, <<"A", "ImageVersion">>, <<"b", "BootID">>,
     <<"B", "BuildID">>, <<"C", "CacheDir">>, <<"g", "UserGroup">>, <<"G", "UserGID">>,
     <<"h", "UserHome">>, <<"H", "Hostname">>, <<"l", "ShortHostname">>,
     <<"L", "LogDir">>, <<"m", "MachineID">>, <<"M", "ImageID">>,
     <<"o", "OperatingSystemID">>, <<"S", "StateDir">>, <<"t", "RuntimeDir">>,
     <<"T", "TempDir">>, <<"u", "Username">>, <<"U", "UserUID">>,
     <<"v", "KernelRelease">>, <<"V", "PersistentTempDir">>, <<"w", "VersionID">>,
     <<"W", "VariantID">>, <<"%", "PercentSign">>}

RECURSIVE DesignatorsOf(_, _)
\* The designator bytes of the specifiers of s from index i on, in order.
DesignatorsOf(s, i) ==
    IF i >= Len(s) THEN <<>>
    ELSE IF s[i] # B["%"] THEN DesignatorsOf(s, i + 1)
    ELSE <<s[i + 1]>> \o DesignatorsOf(s, i + 2)

\* C23: Specifier::parse maps every designator byte to the variant the
\* Specifier enum documents for it (`t` to RuntimeDir, `T` to TempDir, `h` to
\* UserHome, `%` to PercentSign) and returns None for every other byte: each
\* specifier of an accepted path is the documented variant of its designator.
C23_Documented ==
    PathDecoded /\ PathResult.ok =>
      /\ Len(PathResult.val.segments) = Len(DesignatorsOf(PathBytes, 1))
      /\ \A k \in 1..Len(PathResult.val.segments) :
            \E d \in Documented :
              /\ B[d[1]] = DesignatorsOf(PathBytes, 1)[k]
              /\ d[2] = PathResult.val.segments[k][1]

---------------------------------------------------------------------------
(* Claims about the spans, under SpecConfig *)

\* parse_line is running, or has returned, on the line Lines yielded last.
InParseLine ==
    pc \in {"parse_line", "take_field", "loop", "field_returned", "whitespace",
            "argument", "done"}

\* The span parsed_config gave to parse_line.
GivenLine == yielded[Len(yielded)]

\* The char_range of a span is as long as its bytes.
CountsBytes(span) == 0 <= span.start /\ span.end - span.start = Len(span.bytes)

\* What is left of span once c bytes are split off.
Remainder(span, c) ==
    [bytes |-> SubSeqFrom(span.bytes, c), start |-> span.start + c, end |-> span.end]

\* Every span counts its bytes, what Lines holds is the end of the file and
\* what parse_line holds is the end of its line.
Bookkeeping ==
    /\ CountsBytes(input)
    /\ \A i \in 1..Len(yielded) : CountsBytes(yielded[i])
    /\ lines # None =>
          /\ CountsBytes(lines)
          /\ lines = Remainder(FromSlice(source), lines.start)
    /\ InParseLine =>
          /\ GivenLine.start <= input.start
          /\ input = Remainder(GivenLine, input.start - GivenLine.start)

\* A split of c bytes returns [start, start + c) and leaves [start + c, end):
\* the splits of take_field and take_inline_whitespace in parse_line, and
\* the two of Lines::next, of the line and of the newline after it.
SplitsTile ==
    /\ pc \in {"loop", "whitespace"} /\ input' # input =>
          \E c \in 1..Len(input.bytes) :
            /\ input' = Remainder(input, c)
            /\ pc = "loop" => token'.ok /\ token'.val.characters = <<input.start, input.start + c>>
    /\ pc = "lines_next" /\ lines' # lines =>
          \E c \in 0..Len(lines.bytes) :
            /\ yielded' = Append(yielded, [bytes |-> Prefix(lines.bytes, c),
                                            start |-> lines.start, end |-> lines.start + c])
            /\ lines' = Remainder(lines, IF c < Len(lines.bytes) THEN c + 1 ELSE c)

\* The spans of the fields of a Line, in the order of the fields.
FieldSpans(l) ==
    <<l.line_type.characters, l.path.characters, l.mode.characters, l.owner.characters,
      l.group.characters, l.age.characters, l.argument.characters>>

\* Spans in non-decreasing order that do not overlap, from low to high.
InOrderWithin(spans, low, high) ==
    /\ low <= spans[1][1]
    /\ spans[Len(spans)][2] <= high
    /\ \A i \in 1..Len(spans) : spans[i][1] <= spans[i][2]
    /\ \A i \in 1..(Len(spans) - 1) : spans[i][2] <= spans[i + 1][1]

\* C24 as claimed: every span counts its bytes; each split returns
\* [start, start + cursor) and leaves [start + cursor, end), so that the pieces
\* and the remainder tile the original range; and in every Line parse_line
\* returns the spans of type, path, mode, owner, group, age and argument are
\* in non-decreasing order, do not overlap and are within [0, line length].
C24_LineSpansFromZero ==
    /\ [](Bookkeeping)
    /\ [][SplitsTile]_vars
    /\ [](pc = "done" /\ result[1].ok =>
            InOrderWithin(FieldSpans(result[1].val), 0, Len(GivenLine.bytes)))

\* C24: every span counts its bytes; each split returns [start, start + cursor)
\* and leaves [start + cursor, end), so that the pieces and the remainder tile
\* the original range; and in every Line parse_line returns the spans of
\* type, path, mode, owner, group, age and argument are in non-decreasing
\* order, do not overlap and are within the char_range of the span parse_line
\* was given, which is [0, line length] for a span from FileSpan::from_slice.
C24_LineSpans ==
    /\ [](Bookkeeping)
    /\ [][SplitsTile]_vars
    /\ [](pc = "done" /\ result[1].ok =>
            /\ InOrderWithin(FieldSpans(result[1].val), GivenLine.start, GivenLine.end)
            /\ GivenLine.start = 0 => GivenLine.end = Len(GivenLine.bytes))

\* A Line with every field, of the second line of a file.
C24_Witness ==
    /\ pc = "done"
    /\ result[1].ok
    /\ GivenLine.start > 0
    /\ \A i \in 1..7 : FieldSpans(result[1].val)[i][1] < FieldSpans(result[1].val)[i][2]

---------------------------------------------------------------------------
(* take_field and parse_line on every short field, type, path and age *)

InitLine == InitField \/ InitType \/ InitPath \/ InitAge

SpecLine == InitLine /\ [][Next]_vars

---------------------------------------------------------------------------
(* A claim about panics and termination, under SpecLine *)

\* What a failed assertion, a slice out of range, unreachable! or todo! leaves.
IsPanic(r) ==
    /\ ~r.ok
    /\ \/ r.err[1] = "panic"
       \/ r.err[1] \in {"Field", "InvalidCleanupAge"} /\ r.err[2][1] = "panic"

\* No panic so far, the cursor of take_field within the bytes of its span, and
\* a value returned once parse_line is done.
NoPanic ==
    /\ token # None => ~IsPanic(token)
    /\ result # None => ~IsPanic(result[1])
    /\ pc = "loop" => cursor <= Len(input.bytes)
    /\ pc = "done" => result # None

\* The statements of parse_line and take_field left to run for the field at
\* hand, counted from the last one.
StatementsLeft ==
    CASE pc = "parse_line" -> 5
      [] pc = "take_field" -> 4
      [] pc = "loop" -> 3
      [] pc = "field_returned" -> 2
      [] pc = "whitespace" -> 1
      [] OTHER -> 0

\* A bound on the steps left: the fields to read, the statements for the field
\* at hand and the bytes the cursor has not passed; nothing once done.
StepsLeft ==
    IF pc = "done" THEN 0
    ELSE ((7 - column) * 5 + StatementsLeft) * (Len(source) + 2)
           + (IF pc = "loop" THEN Len(input.bytes) + 1 - cursor ELSE 0)

\* C25: for every input without a newline parse_line ends and returns Ok or
\* Err without a panic: the cursor is at most the length of the bytes of the
\* span when split_off_beginning or as_bytes slice them, the assertions of
\* parse_specifiers and of the hex escape hold, the unreachable! and todo!
\* branches of parse_cleanup_age and parse_type are not reached; and every
\* step brings the end nearer.
C25_NoPanic == [](NoPanic) /\ [][StepsLeft' < StepsLeft /\ StepsLeft' >= 0]_vars

\* A hex escape cut short by the end of the line.
C25_Witness ==
    /\ pc = "field_returned"
    /\ token = Err(<<"UnfinishedHexEscape">>)
    /\ Peek(input, cursor) = Some(B["\\"])
    /\ Peek(input, cursor + 2) # None
    /\ Peek(input, cursor + 3) = None

====
